---- MODULE Spec2Model ----
(***************************************************************************)
(* A model of epub_sage's content extractor                                *)
(* (src/epub_sage/extractors/content_extractor.py).                        *)
(*                                                                         *)
(* Strings are sequences of one-character strings, so that prefix tests,   *)
(* splitting, joining and path normalisation are computed character by     *)
(* character as the Python code computes them.  os.path is modelled as     *)
(* posixpath (the separator is '/', a backslash is an ordinary character). *)
(***************************************************************************)
EXTENDS Integers, Sequences, FiniteSets, TLC

(***************************************************************************)
(* String helpers (Python str methods used by the source).                 *)
(***************************************************************************)

\* str.startswith(p)
StartsWith(s, p) ==
    /\ Len(p) <= Len(s)
    /\ SubSeq(s, 1, Len(p)) = p

\* str.endswith(p)
EndsWith(s, p) ==
    /\ Len(p) <= Len(s)
    /\ SubSeq(s, Len(s) - Len(p) + 1, Len(s)) = p

\* s[n:]
Drop(s, n) == SubSeq(s, n + 1, Len(s))

\* s.split(c)[0]: the part of s before the first occurrence of character c
RECURSIVE SplitFirst(_, _)
SplitFirst(s, c) ==
    IF s = <<>> \/ Head(s) = c
    THEN <<>>
    ELSE <<Head(s)>> \o SplitFirst(Tail(s), c)

\* s.split(c): the list of the parts of s between occurrences of c
RECURSIVE Split(_, _)
Split(s, c) ==
    LET first == SplitFirst(s, c)
    IN  IF Len(first) = Len(s)
        THEN <<first>>
        ELSE <<first>> \o Split(Drop(s, Len(first) + 1), c)

\* c.join(parts)
RECURSIVE Join(_, _)
Join(parts, c) ==
    IF parts = <<>> THEN <<>>
    ELSE IF Len(parts) = 1 THEN parts[1]
    ELSE parts[1] \o <<c>> \o Join(Tail(parts), c)

\* s.replace(a, b) for single characters a, b
Replace(s, a, b) == [i \in 1..Len(s) |-> IF s[i] = a THEN b ELSE s[i]]

(***************************************************************************)
(* Module constants.                                                       *)
(***************************************************************************)

\* EXTERNAL_PREFIXES = ('http://', 'https://', 'data:')
EXTERNAL_PREFIXES ==
    { <<"h", "t", "t", "p", ":", "/", "/">>,
      <<"h", "t", "t", "p", "s", ":", "/", "/">>,
      <<"d", "a", "t", "a", ":">> }

\* The value Python's None is modelled by.
None == <<"None">>

(***************************************************************************)
(* posixpath.join and posixpath.normpath, as called on line 57.            *)
(***************************************************************************)

\* os.path.join(a, b)
PathJoin(a, b) ==
    IF StartsWith(b, <<"/">>) THEN b
    ELSE IF a = <<>> \/ EndsWith(a, <<"/">>) THEN a \o b
    ELSE a \o <<"/">> \o b

\* The loop of normpath over the components: new_comps after comps.
RECURSIVE NormComps(_, _, _)
NormComps(comps, new_comps, initial_slashes) ==
    IF comps = <<>> THEN new_comps
    ELSE
        LET comp == Head(comps)
            dotdot == <<".", ".">>
        IN  IF comp = <<>> \/ comp = <<".">>
            THEN NormComps(Tail(comps), new_comps, initial_slashes)
            ELSE IF \/ comp # dotdot
                    \/ (initial_slashes = 0 /\ new_comps = <<>>)
                    \/ (new_comps # <<>> /\ new_comps[Len(new_comps)] = dotdot)
            THEN NormComps(Tail(comps), Append(new_comps, comp), initial_slashes)
            ELSE IF new_comps # <<>>
            THEN NormComps(Tail(comps), SubSeq(new_comps, 1, Len(new_comps) - 1),
                           initial_slashes)
            ELSE NormComps(Tail(comps), new_comps, initial_slashes)

\* os.path.normpath(path)
NormPath(path) ==
    IF path = <<>> THEN <<".">>
    ELSE
        LET initial_slashes ==
                IF ~StartsWith(path, <<"/">>) THEN 0
                ELSE IF StartsWith(path, <<"/", "/">>)
                        /\ ~StartsWith(path, <<"/", "/", "/">>) THEN 2
                ELSE 1
            comps == NormComps(Split(path, "/"), <<>>, initial_slashes)
            joined == [i \in 1..initial_slashes |-> "/"] \o Join(comps, "/")
        IN  IF joined = <<>> THEN <<".">> ELSE joined

(***************************************************************************)
(* Image reference resolution.                                             *)
(***************************************************************************)

\* _is_external_url(path)
is_external_url(path) == \E p \in EXTERNAL_PREFIXES : StartsWith(path, p)

\* The while loop of _normalize_path: strip every leading '../'
RECURSIVE StripParentRefs(_)
StripParentRefs(normalized) ==
    IF StartsWith(normalized, <<".", ".", "/">>)
    THEN StripParentRefs(Drop(normalized, 3))
    ELSE normalized

\* _normalize_path(path)
normalize_path(path) == StripParentRefs(Replace(path, "\\", "/"))

\* img_src.split('#')[0].split('?')[0]
BaseSrc(img_src) == SplitFirst(SplitFirst(img_src, "#"), "?")

\* resolve_image_path(img_src, html_rel_dir)
resolve_image_path(img_src, dir) ==
    IF is_external_url(img_src) THEN img_src
    ELSE IF BaseSrc(img_src) = <<>> THEN None
    ELSE normalize_path(NormPath(PathJoin(dir, BaseSrc(img_src))))

\* Mutant of ValidateStep: the seen set records the raw reference instead of
\* the resolved value, so two spellings of one path are both kept.
ValidateStep_SeenRaw(acc, img_src, dir, valid) ==
    LET resolved == resolve_image_path(img_src, dir)
    IN  IF resolved = None \/ resolved = <<>> \/ img_src \in acc.seen
        THEN acc
        ELSE IF is_external_url(resolved) \/ resolved \in valid
        THEN [seen |-> acc.seen \cup {img_src},
              result |-> Append(acc.result, resolved)]
        ELSE acc

\* One iteration of the for loop of resolve_and_validate_images on the
\* accumulator acc = [seen, result].
ValidateStep(acc, img_src, dir, valid) ==
    LET resolved == resolve_image_path(img_src, dir)
    IN  IF resolved = None \/ resolved = <<>> \/ resolved \in acc.seen
        THEN acc
        ELSE IF is_external_url(resolved) \/ resolved \in valid
        THEN [seen |-> acc.seen \cup {resolved},
              result |-> Append(acc.result, resolved)]
        ELSE acc

\* The state of the for loop after the first n raw references.
RECURSIVE ValidateLoop(_, _, _, _)
ValidateLoop(raw, n, dir, valid) ==
    IF n = 0 THEN [seen |-> {}, result |-> <<>>]
    ELSE ValidateStep(ValidateLoop(raw, n - 1, dir, valid), raw[n], dir, valid)

\* resolve_and_validate_images(raw_images, html_rel_dir, valid_images)
resolve_and_validate_images(raw, dir, valid) ==
    ValidateLoop(raw, Len(raw), dir, valid).result

(***************************************************************************)
(* The parsed document.  A node is a record [name, attrs, text, kids]: a    *)
(* Tag has a tag name, its attributes and its child nodes in order; a       *)
(* NavigableString has the name "#text" and its characters in text.  An     *)
(* attribute that is absent and one that is the empty string are both <<>>: *)
(* the source treats them alike (`src and ...`, `href or ...`, `or ""`).    *)
(***************************************************************************)

NoAttrs ==
    [role |-> <<>>, cls |-> <<>>, id |-> <<>>,
     src |-> <<>>, href |-> <<>>, xhref |-> <<>>]

Tag(name, attrs, kids) ==
    [name |-> name, attrs |-> attrs, text |-> <<>>, kids |-> kids]

Text(t) == [name |-> "#text", attrs |-> NoAttrs, text |-> t, kids |-> <<>>]

IsTag(node) == node.name # "#text"

\* None where an element is expected (Optional[Tag]).
NoElement == Tag("", NoAttrs, <<>>)

\* The characters str.strip() removes.
Whitespace == {" ", "\t", "\n"}

\* str.lstrip()
RECURSIVE LStrip(_)
LStrip(s) ==
    IF s # <<>> /\ Head(s) \in Whitespace THEN LStrip(Tail(s)) ELSE s

\* str.rstrip()
RECURSIVE RStrip(_)
RStrip(s) ==
    IF s # <<>> /\ s[Len(s)] \in Whitespace
    THEN RStrip(SubSeq(s, 1, Len(s) - 1))
    ELSE s

\* str.strip()
Strip(s) == RStrip(LStrip(s))

\* "".join(parts)
RECURSIVE Concat(_)
Concat(parts) ==
    IF parts = <<>> THEN <<>> ELSE Head(parts) \o Concat(Tail(parts))

\* [child for child in element.children if isinstance(child, Tag) and child.name]
TagChildren(element) == SelectSeq(element.kids, IsTag)

\* element.descendants restricted to tags, in document order
RECURSIVE Descendants(_)
Descendants(element) ==
    Concat([i \in DOMAIN element.kids |->
               IF IsTag(element.kids[i])
               THEN <<element.kids[i]>> \o Descendants(element.kids[i])
               ELSE <<>>])

\* element.find_all(name)
find_all(element, name) ==
    LET named(d) == d.name = name
    IN  SelectSeq(Descendants(element), named)

\* element.get_text()
RECURSIVE get_text(_)
get_text(node) ==
    IF ~IsTag(node) THEN node.text
    ELSE Concat([i \in DOMAIN node.kids |-> get_text(node.kids[i])])

\* element.get_text(strip=True): every string stripped, the empty ones left out
RECURSIVE get_text_strip(_)
get_text_strip(node) ==
    IF ~IsTag(node) THEN Strip(node.text)
    ELSE Concat([i \in DOMAIN node.kids |-> get_text_strip(node.kids[i])])

(***************************************************************************)
(* Header detection.                                                       *)
(***************************************************************************)

UpperCase ==
    <<"A", "B", "C", "D", "E", "F", "G", "H", "I", "J", "K", "L", "M",
      "N", "O", "P", "Q", "R", "S", "T", "U", "V", "W", "X", "Y", "Z">>

LowerCase ==
    <<"a", "b", "c", "d", "e", "f", "g", "h", "i", "j", "k", "l", "m",
      "n", "o", "p", "q", "r", "s", "t", "u", "v", "w", "x", "y", "z">>

\* str.lower()
Lower(s) ==
    [i \in 1..Len(s) |->
        IF \E k \in 1..26 : UpperCase[k] = s[i]
        THEN LowerCase[CHOOSE k \in 1..26 : UpperCase[k] = s[i]]
        ELSE s[i]]

\* kw in s
Contains(s, kw) ==
    \E i \in 1..(Len(s) - Len(kw) + 1) : SubSeq(s, i, i + Len(kw) - 1) = kw

\* keywords (lines 100-104)
keywords ==
    { <<"t", "i", "t", "l", "e">>,
      <<"h", "e", "a", "d", "i", "n", "g">>,
      <<"c", "h", "a", "p", "t", "e", "r", "-", "h", "e", "a", "d">>,
      <<"c", "h", "-", "t", "i", "t", "l", "e">>,
      <<"s", "e", "c", "t", "i", "o", "n", "-", "t", "i", "t", "l", "e">>,
      <<"c", "h", "a", "p", "t", "e", "r", "-", "l", "a", "b", "e", "l">>,
      <<"c", "h", "-", "l", "a", "b", "e", "l">>,
      <<"t", "i", "t", "l", "e", "-", "p", "r", "e", "f", "i", "x">>,
      <<"c", "h", "a", "p", "t", "e", "r", "-", "n", "u", "m", "b", "e", "r">>,
      <<"l", "a", "b", "e", "l">>,
      <<"t", "i", "t", "l", "e", "-", "t", "e", "x", "t">> }

\* The upper limit of the text length of a keyword header (line 116).
MaxHeaderLen == 200

\* Mutant of is_generic_header: a text of MaxHeaderLen characters passes
\* (`<=` for `<`).
is_generic_header_AtMost(element) ==
    IF element = NoElement \/ ~IsTag(element) THEN FALSE
    ELSE IF element.name \in {"h1", "h2", "h3", "h4", "h5", "h6"} THEN TRUE
    ELSE IF element.attrs.role = <<"h", "e", "a", "d", "i", "n", "g">> THEN TRUE
    ELSE
        LET combined == Lower(element.attrs.cls \o <<" ">> \o element.attrs.id)
            text == get_text_strip(element)
        IN  /\ \E kw \in keywords : Contains(combined, kw)
            /\ 0 < Len(text)
            /\ Len(text) <= MaxHeaderLen

\* is_generic_header(element) (lines 83-119)
is_generic_header(element) ==
    IF element = NoElement \/ ~IsTag(element) THEN FALSE
    ELSE IF element.name \in {"h1", "h2", "h3", "h4", "h5", "h6"} THEN TRUE
    ELSE IF element.attrs.role = <<"h", "e", "a", "d", "i", "n", "g">> THEN TRUE
    ELSE
        LET combined == Lower(element.attrs.cls \o <<" ">> \o element.attrs.id)
            text == get_text_strip(element)
        IN  /\ \E kw \in keywords : Contains(combined, kw)
            /\ 0 < Len(text)
            /\ Len(text) < MaxHeaderLen

(***************************************************************************)
(* Step 3.1: boilerplate tags are removed from the body (lines 160-168).    *)
(***************************************************************************)

junk_tags == <<"nav", "aside", "script", "style", "footer", "header">>

\* The condition of line 165: junk is no header and contains none.
IsJunk(junk) ==
    /\ ~is_generic_header(junk)
    /\ \A i \in DOMAIN Descendants(junk) :
           ~is_generic_header(Descendants(junk)[i])

\* node after `for junk in body.find_all(junk_tag): ... junk.decompose()`:
\* find_all lists an element before its descendants, so an element is
\* tested before anything inside it is removed, and what is inside a
\* removed element goes with it.
RECURSIVE Decompose(_, _)
Decompose(node, junk_tag) ==
    IF ~IsTag(node) THEN node
    ELSE
        LET removed(k) == IsTag(k) /\ k.name = junk_tag /\ IsJunk(k)
            kept == SelectSeq(node.kids, LAMBDA k : ~removed(k))
        IN  [node EXCEPT !.kids =
                [i \in DOMAIN kept |-> Decompose(kept[i], junk_tag)]]

\* The body after the loop over the first n junk tags.
RECURSIVE StripJunk(_, _)
StripJunk(body, n) ==
    IF n = 0 THEN body
    ELSE Decompose(StripJunk(body, n - 1), junk_tags[n])

(***************************************************************************)
(* Content level and segmentation helpers of extract_content_sections.      *)
(***************************************************************************)

\* The generic containers that are unwrapped one level (line 216).
containers == {"div", "section", "article"}

\* Mutant of ContentChildren: the containers are unwrapped also when a
\* direct child is a header.
ContentChildren_AlwaysUnwrap(current_container) ==
    LET all_direct_children == TagChildren(current_container)
        unwrap(child) ==
            IF child.name \in containers
            THEN IF TagChildren(child) # <<>> THEN TagChildren(child)
                 ELSE IF Strip(get_text(child)) # <<>> THEN <<child>>
                 ELSE <<>>
            ELSE <<child>>
    IN  Concat([i \in DOMAIN all_direct_children |->
                   unwrap(all_direct_children[i])])

\* content_children for a content container (lines 196-231)
ContentChildren(current_container) ==
    LET all_direct_children == TagChildren(current_container)
        direct_headers == SelectSeq(all_direct_children, is_generic_header)
        unwrap(child) ==
            IF child.name \in containers
            THEN IF TagChildren(child) # <<>> THEN TagChildren(child)
                 ELSE IF Strip(get_text(child)) # <<>> THEN <<child>>
                 ELSE <<>>
            ELSE <<child>>
    IN  IF direct_headers # <<>>
        THEN all_direct_children
        ELSE Concat([i \in DOMAIN all_direct_children |->
                        unwrap(all_direct_children[i])])

\* The non-empty values of a list of attribute values (`if src and ...`).
NonEmpty(values) == SelectSeq(values, LAMBDA v : v # <<>>)

\* svg_img.get('href') or svg_img.get('xlink:href')
HrefOf(image) ==
    IF image.attrs.href # <<>> THEN image.attrs.href ELSE image.attrs.xhref

\* src of an img
SrcOf(img) == img.attrs.src

\* child_images for a content element (lines 241-260)
ChildImages(child) ==
    LET imgs == find_all(child, "img")
        svg_imgs == find_all(child, "image")
        found == NonEmpty([i \in DOMAIN imgs |-> SrcOf(imgs[i])])
                 \o NonEmpty([i \in DOMAIN svg_imgs |-> HrefOf(svg_imgs[i])])
        in_found(v) == \E i \in DOMAIN found : found[i] = v
    IN  IF child.name = "img"
        THEN IF SrcOf(child) # <<>> /\ ~in_found(SrcOf(child))
             THEN Append(found, SrcOf(child)) ELSE found
        ELSE IF child.name = "image"
        THEN IF HrefOf(child) # <<>> /\ ~in_found(HrefOf(child))
             THEN Append(found, HrefOf(child)) ELSE found
        ELSE found

\* Only elements with more text than this are checked for links (line 267).
LinkCheckMinLen == 40

\* The link share above which a block is skipped, in percent (line 270).
LinkSharePercent == 70

\* "".join([a.get_text(strip=True) for a in child.find_all('a')])
LinksText(child) ==
    Concat([i \in DOMAIN find_all(child, "a") |->
               get_text_strip(find_all(child, "a")[i])])

\* Mutant of IsLinkHeavy: blocks of exactly LinkCheckMinLen characters are
\* checked too (`>=` for `>`).
IsLinkHeavy_AtLeast(child) ==
    LET text == get_text_strip(child)
    IN  /\ Len(text) >= LinkCheckMinLen
        /\ 100 * Len(LinksText(child)) > LinkSharePercent * Len(text)

\* The link-density test of lines 266-272.  len(links_text) / len(text) is
\* the correctly rounded quotient and 0.70 the double nearest to 7/10, so
\* for these lengths the comparison is that of the exact fractions.
IsLinkHeavy(child) ==
    LET text == get_text_strip(child)
    IN  /\ Len(text) > LinkCheckMinLen
        /\ 100 * Len(LinksText(child)) > LinkSharePercent * Len(text)

\* Mutant of IsSkipped: the filters are applied to headers as well.
IsSkipped_Headers(child) ==
    \/ IsLinkHeavy(child)
    \/ get_text_strip(child) = <<>> /\ ChildImages(child) = <<>>

\* Mutant of IsSkipped: an element without text is skipped whether or not
\* images were extracted from it.
IsSkipped_NoText(child) ==
    /\ ~is_generic_header(child)
    /\ \/ IsLinkHeavy(child)
       \/ get_text_strip(child) = <<>>

\* The `continue` conditions of lines 264-276 for a content element.
IsSkipped(child) ==
    /\ ~is_generic_header(child)
    /\ \/ IsLinkHeavy(child)
       \/ get_text_strip(child) = <<>> /\ ChildImages(child) = <<>>

\* 'Intro'
Intro == <<"I", "n", "t", "r", "o">>

\* Mutant of OrIntro: the header is used as it is.
OrIntro_Keep(header) == header

\* `x or 'Intro'` for an Optional[str] x
OrIntro(header) == IF header = None \/ header = <<>> THEN Intro ELSE header

\* The block of a header element (lines 288-294)
HeaderBlock(child) ==
    [tag |-> child.name, text |-> Strip(get_text(child)), html |-> child,
     images |-> ChildImages(child), is_header |-> TRUE]

\* The block of another element (lines 298-303); it has no 'is_header' key,
\* which is modelled by FALSE.
ContentBlock(child) ==
    [tag |-> child.name, text |-> Strip(get_text(child)), html |-> child,
     images |-> ChildImages(child), is_header |-> FALSE]

\* The section dictionary of lines 281-285 and 308-312
Section(header, content, images) ==
    [header |-> OrIntro(header), content |-> content, images |-> images]

(***************************************************************************)
(* Input domains of the image resolver: raw references as they occur in    *)
(* src/href attributes, containing directories as os.path.dirname yields   *)
(* them (line 350) and image paths as discover_epub_images yields them.    *)
(***************************************************************************)

\* '../images/cover.jpg'
R_parent_cover ==
    <<".", ".", "/", "i", "m", "a", "g", "e", "s", "/", "c", "o", "v", "e", "r", ".", "j", "p", "g">>
\* 'images/cover.jpg'
R_images_cover ==
    <<"i", "m", "a", "g", "e", "s", "/", "c", "o", "v", "e", "r", ".", "j", "p", "g">>
\* 'cover.jpg'
R_cover ==
    <<"c", "o", "v", "e", "r", ".", "j", "p", "g">>
\* './cover.jpg'
R_dot_cover ==
    <<".", "/", "c", "o", "v", "e", "r", ".", "j", "p", "g">>
\* 'cover.jpg#top'
R_cover_frag ==
    <<"c", "o", "v", "e", "r", ".", "j", "p", "g", "#", "t", "o", "p">>
\* 'cover.jpg?v=1'
R_cover_query ==
    <<"c", "o", "v", "e", "r", ".", "j", "p", "g", "?", "v", "=", "1">>
\* '#top'
R_frag_only ==
    <<"#", "t", "o", "p">>
\* ''
R_empty ==
    <<>>
\* '../../../cover.jpg'
R_climb_cover ==
    <<".", ".", "/", ".", ".", "/", ".", ".", "/", "c", "o", "v", "e", "r", ".", "j", "p", "g">>
\* 'images\cover.jpg'
R_back_cover ==
    <<"i", "m", "a", "g", "e", "s", "\\", "c", "o", "v", "e", "r", ".", "j", "p", "g">>
\* 'images\..\cover.jpg'
R_back_parent ==
    <<"i", "m", "a", "g", "e", "s", "\\", ".", ".", "\\", "c", "o", "v", "e", "r", ".", "j", "p", "g">>
\* '/cover.jpg'
R_abs_cover ==
    <<"/", "c", "o", "v", "e", "r", ".", "j", "p", "g">>
\* 'https://example.com/x.png'
R_https ==
    <<"h", "t", "t", "p", "s", ":", "/", "/", "e", "x", "a", "m", "p", "l", "e", ".", "c", "o", "m", "/", "x", ".", "p", "n", "g">>
\* 'http://cover.jpg'
R_http ==
    <<"h", "t", "t", "p", ":", "/", "/", "c", "o", "v", "e", "r", ".", "j", "p", "g">>
\* 'data:cover.jpg'
R_data ==
    <<"d", "a", "t", "a", ":", "c", "o", "v", "e", "r", ".", "j", "p", "g">>
\* './data:cover.jpg'
R_dot_data ==
    <<".", "/", "d", "a", "t", "a", ":", "c", "o", "v", "e", "r", ".", "j", "p", "g">>

\* Every raw reference of the model.
RawRefs ==
    { R_parent_cover, R_images_cover, R_cover, R_dot_cover, R_cover_frag,
      R_cover_query, R_frag_only, R_empty, R_climb_cover, R_back_cover,
      R_back_parent, R_abs_cover, R_https, R_http, R_data, R_dot_data }

\* The references lists of several references are drawn from.
CoreRefs ==
    { R_parent_cover, R_cover, R_dot_cover, R_frag_only, R_https, R_dot_data }

\* ''
D_root ==
    <<>>
\* 'OEBPS'
D_oebps ==
    <<"O", "E", "B", "P", "S">>
\* 'OEBPS/Text'
D_text ==
    <<"O", "E", "B", "P", "S", "/", "T", "e", "x", "t">>

Dirs == { D_root, D_oebps, D_text }

\* 'OEBPS/images/cover.jpg'
I_oebps_images_cover ==
    <<"O", "E", "B", "P", "S", "/", "i", "m", "a", "g", "e", "s", "/", "c", "o", "v", "e", "r", ".", "j", "p", "g">>
\* 'images/cover.jpg'
I_images_cover ==
    <<"i", "m", "a", "g", "e", "s", "/", "c", "o", "v", "e", "r", ".", "j", "p", "g">>
\* 'cover.jpg'
I_cover ==
    <<"c", "o", "v", "e", "r", ".", "j", "p", "g">>
\* 'OEBPS/cover.jpg'
I_oebps_cover ==
    <<"O", "E", "B", "P", "S", "/", "c", "o", "v", "e", "r", ".", "j", "p", "g">>
\* 'OEBPS/Text/cover.jpg'
I_text_cover ==
    <<"O", "E", "B", "P", "S", "/", "T", "e", "x", "t", "/", "c", "o", "v", "e", "r", ".", "j", "p", "g">>

ValidSets ==
    { {},
      { I_oebps_images_cover },
      { I_cover, I_text_cover, I_oebps_cover },
      { I_oebps_images_cover, I_images_cover, I_cover, I_oebps_cover,
        I_text_cover } }

\* The longest list of raw references with more than one element.
MaxRefs == 3

\* The sequences over S of length at most n.
SeqsUpTo(S, n) == UNION { [1..k -> S] : k \in 0..n }

(***************************************************************************)
(* Input domain of extract_content_sections: parsed documents.              *)
(***************************************************************************)

\* n times the character c
Rep(c, n) == [i \in 1..n |-> c]

T_title == <<" ", "T", "i", "t", "l", "e", " ">>
T_part == <<"P", "a", "r", "t">>
T_text == <<"T", "e", "x", "t">>
T_one == <<"O", "n", "e">>
T_newline == <<"\n">>
Digits == <<"1", "2", "3", "4", "5", "6", "7", "8", "9">>

P(kids) == Tag("p", NoAttrs, kids)
A(t) == Tag("a", NoAttrs, <<Text(t)>>)
Img(src) == Tag("img", [NoAttrs EXCEPT !.src = src], <<>>)

\* <h1> Title </h1>
E_h1 == Tag("h1", NoAttrs, <<Text(T_title)>>)
\* <h2></h2>: a header without text
E_h2_empty == Tag("h2", NoAttrs, <<>>)
\* <h1><img src="https://example.com/x.png"/>Part</h1>
E_h1_img == Tag("h1", NoAttrs, <<Img(R_https), Text(T_part)>>)
\* <p>Text</p>
E_p == P(<<Text(T_text)>>)
\* <p>Text<img src="cover.jpg"/></p>
E_p_img == P(<<Text(T_text), Img(R_cover)>>)
\* <img src="./cover.jpg"/>
E_img == Img(R_dot_cover)
\* <p> </p>
E_p_empty == P(<<Text(<<" ">>)>>)
\* 50 characters, 40 of them inside an anchor, and an image
E_links_img ==
    P(<<A(Rep("x", 40)), Text(Rep("y", 10)), Img(R_cover_frag)>>)
\* 50 characters, 35 of them inside an anchor
E_p_35of50 == P(<<A(Rep("x", 35)), Text(Rep("y", 15))>>)
\* 40 characters, all inside an anchor
E_p_40 == P(<<A(Rep("x", 40))>>)
\* 41 characters, all inside an anchor
E_p_41 == P(<<A(Rep("x", 41))>>)
\* <div class="Chapter-Title">One</div>
E_div_title ==
    Tag("div",
        [NoAttrs EXCEPT !.cls = <<"C", "h", "a", "p", "t", "e", "r", "-",
                                  "T", "i", "t", "l", "e">>],
        <<Text(T_one)>>)
\* <div><p>Text</p><p><img src="../images/cover.jpg"/></p></div>
E_div_wrap == Tag("div", NoAttrs, <<E_p, P(<<Img(R_parent_cover)>>)>>)
\* <nav><a>Text</a></nav>
E_nav == Tag("nav", NoAttrs, <<A(T_text)>>)
\* <svg><image xlink:href="images/cover.jpg"/></svg>
E_svg ==
    Tag("svg", NoAttrs,
        <<Tag("image", [NoAttrs EXCEPT !.xhref = R_images_cover], <<>>)>>)
\* <span role="heading">Part</span>
E_span_role ==
    Tag("span",
        [NoAttrs EXCEPT !.role = <<"h", "e", "a", "d", "i", "n", "g">>],
        <<Text(T_part)>>)
\* <div>Text</div>
E_div_text == Tag("div", NoAttrs, <<Text(T_text)>>)
\* <div></div>
E_div_empty == Tag("div", NoAttrs, <<>>)
\* <section><h1> Title </h1><p>Text</p></section>
E_section_h == Tag("section", NoAttrs, <<E_h1, E_p>>)

\* <div><div><p>Text</p><p><img .../></p></div><p>Text</p></div>
E_div_nested == Tag("div", NoAttrs, <<E_div_wrap, E_p>>)

\* The elements the children of a content level are drawn from.
ContentElems ==
    { E_h1, E_h2_empty, E_h1_img, E_p, E_p_img, E_img, E_p_empty,
      E_links_img, E_p_35of50, E_div_title, E_div_wrap, E_nav }

\* Elements that occur beside one paragraph or one heading only.
ExtraElems ==
    { E_p_40, E_p_41, E_svg, E_span_role, E_div_text, E_div_empty,
      E_section_h, E_div_nested }

\* <p>1</p> ... <p>5</p>
FiveParagraphs == [i \in 1..5 |-> P(<<Text(<<Digits[i]>>)>>)]

\* The longest drawn list of children of a content level.
MaxKids == 3

\* The deepest chain of single-child wrapper divs.
MaxDepth == 3

\* <body> with a line break before its child elements
Body(kids) == Tag("body", NoAttrs, <<Text(T_newline)>> \o kids)

\* kids inside depth nested <div> wrappers
RECURSIVE Wrapped(_, _)
Wrapped(depth, kids) ==
    IF depth = 0 THEN kids
    ELSE <<Tag("div", NoAttrs,
               <<Text(T_newline)>> \o Wrapped(depth - 1, kids))>>

\* The contents that are put inside wrapper chains.
WrappedContents ==
    { FiveParagraphs, <<E_h1, E_p>>, <<E_p>>, <<E_links_img, E_img>>, <<>> }

Documents ==
    { Body(kids) : kids \in SeqsUpTo(ContentElems, MaxKids) }
    \cup { Body(<<a, x>>) : a \in {E_p, E_h1}, x \in ExtraElems }
    \cup { Body(<<x, a>>) : a \in {E_p, E_h1}, x \in ExtraElems }
    \cup { Body(Wrapped(d, kids)) : d \in 1..MaxDepth, kids \in WrappedContents }

\* The body variable of a file that gave no body.
NoBody == Tag("", NoAttrs, <<>>)

\* 'ch1.xhtml'
FileName == <<"c", "h", "1", ".", "x", "h", "t", "m", "l">>

\* The known-image set of the package the documents are in.
PackageImages == { I_oebps_cover, I_oebps_images_cover }

\* 'OEBPS/style.css'
F_style ==
    <<"O", "E", "B", "P", "S", "/", "s", "t", "y", "l", "e", ".", "c", "s", "s">>

\* The files of the package that are not documents.
PackageFiles == PackageImages \cup { F_style }

\* 'META-INF'
D_meta_inf == <<"M", "E", "T", "A", "-", "I", "N", "F">>

\* 'notes.txt'
F_notes == <<"n", "o", "t", "e", "s", ".", "t", "x", "t">>

\* 'ch<i>.xhtml'
ChapterFile(i) == <<"c", "h", Digits[i], ".", "x", "h", "t", "m", "l">>

\* A file that os.walk yields: its directory (relative to the package), its
\* name, what opening and parsing it gives, and its body when it has one.
WalkEntry(root, name, kind, doc) ==
    [root |-> root, name |-> name, kind |-> kind, body |-> doc]

\* The most files of a package with several files.
MaxFiles == 2

\* The kinds of file of the packages with several files.
SmallKinds ==
    { "missing", "unreadable", "no_body", "text", "empty", "meta_inf",
      "not_html" }

\* The i-th file of a package with several files.
SmallEntry(kind, i) ==
    CASE kind = "text" ->
             WalkEntry(D_oebps, ChapterFile(i), "ok", Body(<<E_h1, E_p>>))
      [] kind = "empty" ->
             WalkEntry(D_oebps, ChapterFile(i), "ok", Body(<<>>))
      [] kind = "meta_inf" ->
             WalkEntry(D_meta_inf, ChapterFile(i), "ok", Body(<<E_p>>))
      [] kind = "not_html" ->
             WalkEntry(D_oebps, F_notes, "ok", Body(<<E_p>>))
      [] OTHER -> WalkEntry(D_oebps, ChapterFile(i), kind, NoBody)

\* The file lists of the packages: one document of Documents or one file
\* that gives no body, or up to MaxFiles small files.
Packages ==
    { <<WalkEntry(D_oebps, FileName, "ok", doc)>> : doc \in Documents }
    \cup { [i \in DOMAIN kinds |-> SmallEntry(kinds[i], i)] :
              kinds \in SeqsUpTo(SmallKinds, MaxFiles) }

(***************************************************************************)
(* State.                                                                  *)
(***************************************************************************)
VARIABLES
    raw_images,       \* resolve_and_validate_images: the raw_images argument
    html_rel_dir,     \* the directory of the document, relative to the root
    valid_images,     \* the known-image set
    resolved_images,  \* the list resolve_and_validate_images returned
    rpc,              \* "call" before the call, "return" after it
    file_kind,        \* "missing", "unreadable", "no_body" or "ok"
    body,             \* soup.find('body')
    pc,               \* the position in extract_book_content
    current_container,
    content_children,
    idx,              \* the index in content_children of the for loop's child
    sections,
    current_header,
    current_content,
    current_images,
    aliased,          \* current_images is the list object that is also the
                      \* 'images' of current_content[0] (line 292 and 295)
    content_data,     \* the result of extract_book_content
    epub_exists,      \* whether epub_directory_path is a directory
    epub_files,       \* the files os.walk(epub_directory_path) yields
    file_idx,         \* the index in epub_files of the file the walk is at
    file,             \* the name of the file the walk last opened
    element,          \* is_generic_header: the element argument
    is_header,        \* what is_generic_header returned
    item_id,          \* the classifier: the item_id argument
    item_href,        \* the classifier: the href argument
    label,            \* _classify_nav_entry: the label argument
    content_type,     \* what classify_content_item returned
    part_number,      \* what extract_part_number returned
    chapter_number,   \* what extract_chapter_number returned
    nav_entry,        \* what _classify_nav_entry returned
    format,           \* toc: the --format option
    flat,             \* toc: the --flat option
    navigation_tree,  \* toc: nav["navigation_tree"]
    flat_list,        \* toc: the list flatten appends to
    stack,            \* toc: the calls of flatten that have not returned
    output,           \* toc: what was handed to the formatter
    epub_path,        \* validate_epub_path: the path argument
    path_kind,        \* what is at the path: "absent", "file", "dir", "other"
    code,             \* handle_error: the code argument, {} when left out
    exit_code,        \* the code of the SystemExit that was raised, if any
    returned_path,    \* what validate_epub_path returned
    all_files,        \* images: extractor.list_epub_contents(path)
    extract_to,       \* images: what is at --extract: "absent", "dir", "file"
    disk,             \* images: the files under extract_to, <<name, content>>
    image_files,
    img_idx,          \* images: the index in image_files of the for loop
    output_path,      \* images: the file name chosen under extract_to
    counter,
    extracted_count,
    extractions,      \* images: the calls of extract_single_file so far
    ipc,              \* images: the position in the command
    reported          \* images: the count that was printed, if any

resolve_vars == <<raw_images, resolved_images, rpc>>

segment_vars ==
    <<sections, current_header, current_content, current_images, aliased, idx>>

\* The package and the position of the walk over its files.
walk_vars == <<epub_exists, epub_files, file_idx, file>>

extract_vars ==
    <<file_kind, body, pc, current_container, content_children, segment_vars,
      content_data, walk_vars>>

header_vars == <<element, is_header>>

classify_vars ==
    <<item_id, item_href, label, content_type, part_number, chapter_number,
      nav_entry>>

toc_vars == <<format, flat, navigation_tree, flat_list, stack, output>>

validate_vars == <<epub_path, path_kind, code, exit_code, returned_path>>

images_vars ==
    <<all_files, extract_to, disk, image_files, img_idx, output_path, counter,
      extracted_count, extractions, ipc, reported>>

\* The variables of the command-line front end.
cli_vars == <<validate_vars, images_vars>>

\* The variables of the calls that are checked on their own.
unit_vars == <<header_vars, classify_vars, toc_vars, cli_vars>>

vars == <<resolve_vars, html_rel_dir, valid_images, extract_vars, unit_vars>>

\* None where an integer is expected (Optional[int]); n is {n}.
NoNumber == {}

\* The values of is_generic_header's variables when it is not called.
HeaderIdle ==
    /\ element = NoElement
    /\ is_header = FALSE

\* The values of the classifier's variables when it is not called.
ClassifyIdle ==
    /\ item_id = <<>>
    /\ item_href = <<>>
    /\ label = <<>>
    /\ content_type = ""
    /\ part_number = NoNumber
    /\ chapter_number = NoNumber
    /\ nav_entry = <<"", NoNumber, NoNumber>>

\* The values of toc's variables when it is not called.
TocIdle ==
    /\ format = "text"
    /\ flat = FALSE
    /\ navigation_tree = <<>>
    /\ flat_list = <<>>
    /\ stack = <<>>
    /\ output = "none"

\* The values of validate_epub_path's variables when it is not called.
ValidateIdle ==
    /\ epub_path = <<>>
    /\ path_kind = "absent"
    /\ code = NoNumber
    /\ exit_code = NoNumber
    /\ returned_path = None

\* The values of the images command's variables when it does not run.
ImagesIdle ==
    /\ all_files = <<>>
    /\ extract_to = "absent"
    /\ disk = {}
    /\ image_files = <<>>
    /\ img_idx = 1
    /\ output_path = <<>>
    /\ counter = 1
    /\ extracted_count = 0
    /\ extractions = <<>>
    /\ ipc = "idle"
    /\ reported = NoNumber

CliIdle == ValidateIdle /\ ImagesIdle

\* The values of the extraction's variables when no extraction runs.
ExtractIdle ==
    /\ file_kind = "missing"
    /\ body = NoBody
    /\ pc = "idle"
    /\ current_container = NoBody
    /\ content_children = <<>>
    /\ idx = 1
    /\ sections = <<>>
    /\ current_header = None
    /\ current_content = <<>>
    /\ current_images = <<>>
    /\ aliased = FALSE
    /\ content_data = <<>>
    /\ epub_exists = FALSE
    /\ epub_files = <<>>
    /\ file_idx = 1
    /\ file = <<>>

(***************************************************************************)
(* SpecResolve: one call of resolve_and_validate_images on drawn inputs.   *)
(***************************************************************************)
InitResolve ==
    /\ raw_images \in SeqsUpTo(CoreRefs, MaxRefs) \cup { <<r>> : r \in RawRefs }
    /\ html_rel_dir \in Dirs
    /\ valid_images \in ValidSets
    /\ resolved_images = <<>>
    /\ rpc = "call"
    /\ ExtractIdle
    /\ HeaderIdle
    /\ ClassifyIdle
    /\ TocIdle
    /\ CliIdle

CallResolve ==
    /\ rpc = "call"
    /\ resolved_images' =
           resolve_and_validate_images(raw_images, html_rel_dir, valid_images)
    /\ rpc' = "return"
    /\ UNCHANGED <<raw_images, html_rel_dir, valid_images, extract_vars,
                   unit_vars>>

NextResolve == CallResolve

SpecResolve == InitResolve /\ [][NextResolve]_vars

(***************************************************************************)
(* SpecHeader: one call of is_generic_header on a drawn element.           *)
(***************************************************************************)

\* 'heading'
A_heading == <<"h", "e", "a", "d", "i", "n", "g">>
\* 'banner'
A_banner == <<"b", "a", "n", "n", "e", "r">>
\* 'Chapter-Title'
A_chapter_title ==
    <<"C", "h", "a", "p", "t", "e", "r", "-", "T", "i", "t", "l", "e">>
\* 'LABEL'
A_label_upper == <<"L", "A", "B", "E", "L">>
\* 'ch-title'
A_ch_title == <<"c", "h", "-", "t", "i", "t", "l", "e">>
\* 'body text'
A_body_text == <<"b", "o", "d", "y", " ", "t", "e", "x", "t">>
\* 'ti'
A_ti == <<"t", "i">>
\* 'tle'
A_tle == <<"t", "l", "e">>

\* The tag names of the drawn elements.
HeaderNames == { "h1", "h3", "h6", "h7", "p", "div", "span" }

\* The role attributes of the drawn elements.
HeaderRoles == { <<>>, A_heading, A_banner }

\* The (class, id) attributes of the drawn elements: none, a keyword in the
\* class, in the id, in upper case, no keyword, a keyword only across the
\* space that joins class and id.
HeaderClassIds ==
    { <<<<>>, <<>>>>, <<A_chapter_title, <<>>>>, <<<<>>, A_ch_title>>,
      <<A_label_upper, A_body_text>>, <<A_body_text, <<>>>>, <<A_ti, A_tle>> }

\* The children of the drawn elements: stripped text of 0, 1, 199, 200 and
\* 201 characters.
HeaderTexts ==
    { <<>>, <<Text(<<" ", "\n">>)>>, <<Text(<<"x">>)>>,
      <<Text(Rep("x", MaxHeaderLen - 1))>>,
      <<Text(<<" ">> \o Rep("x", MaxHeaderLen - 1) \o <<" ">>)>>,
      <<Text(Rep("x", MaxHeaderLen))>>,
      <<Text(Rep("x", MaxHeaderLen - 1)),
        Tag("b", NoAttrs, <<Text(<<" ", "y", " ">>)>>)>>,
      <<Text(Rep("x", MaxHeaderLen + 1))>> }

HeaderInputs ==
    { NoElement, Text(T_text) }
    \cup { Tag(name, [NoAttrs EXCEPT !.role = role, !.cls = ci[1], !.id = ci[2]],
               kids) :
             name \in HeaderNames, role \in HeaderRoles,
             ci \in HeaderClassIds, kids \in HeaderTexts }

InitHeader ==
    /\ raw_images = <<>>
    /\ resolved_images = <<>>
    /\ html_rel_dir = D_root
    /\ valid_images = {}
    /\ rpc = "call"
    /\ ExtractIdle
    /\ element \in HeaderInputs
    /\ is_header = FALSE
    /\ ClassifyIdle
    /\ TocIdle
    /\ CliIdle

CallIsGenericHeader ==
    /\ rpc = "call"
    /\ is_header' = is_generic_header(element)
    /\ rpc' = "return"
    /\ UNCHANGED <<raw_images, resolved_images, html_rel_dir, valid_images,
                   extract_vars, cli_vars, element, classify_vars, toc_vars>>

NextHeader == CallIsGenericHeader

SpecHeader == InitHeader /\ [][NextHeader]_vars

(***************************************************************************)
(* The content classifier (ContentClassifier) and the classification of    *)
(* navigation entries (TocParser._classify_nav_entry).  Their code is not  *)
(* part of src/: the definitions follow sections 4.5 and 4.6 of the        *)
(* specification, with the calls of the tests as examples.                  *)
(***************************************************************************)

DigitChars == <<"0", "1", "2", "3", "4", "5", "6", "7", "8", "9">>

IsDigit(c) == \E d \in DOMAIN DigitChars : DigitChars[d] = c

\* A letter or a digit: what a delimiter is not.
IsAlnum(c) ==
    \/ IsDigit(c)
    \/ \E k \in 1..26 : LowerCase[k] = c \/ UpperCase[k] = c

\* int(digits)
RECURSIVE ToInt(_)
ToInt(digits) ==
    IF digits = <<>> THEN 0
    ELSE 10 * ToInt(SubSeq(digits, 1, Len(digits) - 1))
         + (CHOOSE d \in DOMAIN DigitChars :
                DigitChars[d] = digits[Len(digits)]) - 1

\* Mutant of CaseFold: the letter case is kept.
CaseFold_Keep(s) == s

\* Matching is case-insensitive: the strings are matched in lower case.
CaseFold(s) == Lower(s)

\* Mutant of BoundaryBefore: a pattern may start inside a word.
BoundaryBefore_Anywhere(s, i) == TRUE

\* Position i of s is the start of a token: no letter or digit before it.
BoundaryBefore(s, i) == i = 1 \/ ~IsAlnum(s[i - 1])

\* Position i of s is past the end of a token: no letter or digit at it.
BoundaryAt(s, i) == i > Len(s) \/ ~IsAlnum(s[i])

\* word stands in s at position i.
WordAt(s, i, word) ==
    /\ i + Len(word) - 1 <= Len(s)
    /\ SubSeq(s, i, i + Len(word) - 1) = word

\* The last position of the run of digits of s that starts at position j
\* (j - 1 when there is no digit at j).
RECURSIVE DigitRunEnd(_, _)
DigitRunEnd(s, j) ==
    IF j <= Len(s) /\ IsDigit(s[j]) THEN DigitRunEnd(s, j + 1) ELSE j - 1

\* prefix followed by one or more digits is a token of s at position i.
NumberedAt(s, i, prefix) ==
    /\ BoundaryBefore(s, i)
    /\ WordAt(s, i, prefix)
    /\ DigitRunEnd(s, i + Len(prefix)) >= i + Len(prefix)
    /\ BoundaryAt(s, DigitRunEnd(s, i + Len(prefix)) + 1)

\* The positions and prefixes at which a numbered pattern is in s.
Hits(s, prefixes) ==
    { h \in (1..Len(s)) \X prefixes : NumberedAt(s, h[1], h[2]) }

\* Mutant of NumberIn: 0 stands for "no number".
NumberIn_Zero(s, prefixes) ==
    IF Hits(s, prefixes) = {} THEN {0}
    ELSE LET first == CHOOSE h \in Hits(s, prefixes) :
                          \A g \in Hits(s, prefixes) : h[1] <= g[1]
             from == first[1] + Len(first[2])
         IN  { ToInt(SubSeq(s, from, DigitRunEnd(s, from))) }

\* The number of the first numbered pattern of s, None without one.
NumberIn(s, prefixes) ==
    IF Hits(s, prefixes) = {} THEN NoNumber
    ELSE LET first == CHOOSE h \in Hits(s, prefixes) :
                          \A g \in Hits(s, prefixes) : h[1] <= g[1]
             from == first[1] + Len(first[2])
         IN  { ToInt(SubSeq(s, from, DigitRunEnd(s, from))) }

\* word is a token of s.
TokenIn(s, word) ==
    \E i \in 1..Len(s) :
        /\ BoundaryBefore(s, i)
        /\ WordAt(s, i, word)
        /\ BoundaryAt(s, i + Len(word))

\* Chapter patterns: chapter-N, chapterNN, chN, chNN.
ChapterPrefixes ==
    { <<"c", "h", "a", "p", "t", "e", "r", "-">>,
      <<"c", "h", "a", "p", "t", "e", "r">>,
      <<"c", "h">> }

\* Mutant of PartPrefixes: no pattern for the compound form part-idXXX.
PartPrefixes_NoCompound ==
    { <<"p", "a", "r", "t", "-">>,
      <<"p", "a", "r", "t">> }

\* Part patterns: part-N, partNN and the compound form part-idXXX.
PartPrefixes ==
    { <<"p", "a", "r", "t", "-">>,
      <<"p", "a", "r", "t">>,
      <<"p", "a", "r", "t", "-", "i", "d">> }

\* Front-matter identifiers: titlepage, preface and similar.
FrontMatterWords ==
    { <<"t", "i", "t", "l", "e", "p", "a", "g", "e">>,
      <<"p", "r", "e", "f", "a", "c", "e">>,
      <<"f", "o", "r", "e", "w", "o", "r", "d">>,
      <<"d", "e", "d", "i", "c", "a", "t", "i", "o", "n">>,
      <<"c", "o", "p", "y", "r", "i", "g", "h", "t">> }

\* Navigation identifiers: toc.
NavigationWords == { <<"t", "o", "c">> }

\* Back-matter identifiers: appendix-*.
BackMatterWords == { <<"a", "p", "p", "e", "n", "d", "i", "x">> }

\* Index entries of the navigation document.
IndexWords == { <<"i", "n", "d", "e", "x">> }

\* The type the patterns give one string: the patterns are tried in the
\* order chapter, part, front matter, navigation, back matter.
TypeOf(s) ==
    IF Hits(s, ChapterPrefixes) # {} THEN "chapter"
    ELSE IF Hits(s, PartPrefixes) # {} THEN "part"
    ELSE IF \E w \in FrontMatterWords : TokenIn(s, w) THEN "front_matter"
    ELSE IF \E w \in NavigationWords : TokenIn(s, w) THEN "navigation"
    ELSE IF \E w \in BackMatterWords : TokenIn(s, w) THEN "back_matter"
    ELSE "other"

\* Mutant of classify_content_item: the href is consulted first.
classify_content_item_HrefFirst(id, href) ==
    IF TypeOf(CaseFold(href)) # "other" THEN TypeOf(CaseFold(href))
    ELSE TypeOf(CaseFold(id))

\* classify_content_item(item_id, href): the identifier first, then the href.
classify_content_item(id, href) ==
    IF TypeOf(CaseFold(id)) # "other" THEN TypeOf(CaseFold(id))
    ELSE TypeOf(CaseFold(href))

\* Mutant of extract_part_number: the href is tried first.
extract_part_number_HrefFirst(id, href) ==
    IF NumberIn(CaseFold(href), PartPrefixes) # NoNumber
    THEN NumberIn(CaseFold(href), PartPrefixes)
    ELSE NumberIn(CaseFold(id), PartPrefixes)

\* extract_part_number(item_id, href): the number of the id's part pattern,
\* that of the href's when the id gives none, None when neither gives one.
extract_part_number(id, href) ==
    IF NumberIn(CaseFold(id), PartPrefixes) # NoNumber
    THEN NumberIn(CaseFold(id), PartPrefixes)
    ELSE NumberIn(CaseFold(href), PartPrefixes)

\* extract_chapter_number(item_id, href), in the same order.
extract_chapter_number(id, href) ==
    IF NumberIn(CaseFold(id), ChapterPrefixes) # NoNumber
    THEN NumberIn(CaseFold(id), ChapterPrefixes)
    ELSE NumberIn(CaseFold(href), ChapterPrefixes)

\* Chapter patterns of a label: those of an identifier and 'chapter N'.
LabelChapterPrefixes ==
    ChapterPrefixes \cup { <<"c", "h", "a", "p", "t", "e", "r", " ">> }

\* The type the patterns give the label or the href of a navigation entry.
NavTypeOf(s) ==
    IF Hits(s, LabelChapterPrefixes) # {} THEN "chapter"
    ELSE IF \E w \in FrontMatterWords : TokenIn(s, w) THEN "front_matter"
    ELSE IF \E w \in BackMatterWords : TokenIn(s, w) THEN "back_matter"
    ELSE IF \E w \in IndexWords : TokenIn(s, w) THEN "index"
    ELSE "other"

\* Mutant of classify_nav_entry: the href is consulted before the label.
classify_nav_entry_HrefFirst(nav_label, href) ==
    LET type == IF NavTypeOf(CaseFold(href)) # "other"
                THEN NavTypeOf(CaseFold(href))
                ELSE NavTypeOf(CaseFold(nav_label))
        number == IF NumberIn(CaseFold(nav_label), LabelChapterPrefixes)
                     # NoNumber
                  THEN NumberIn(CaseFold(nav_label), LabelChapterPrefixes)
                  ELSE NumberIn(CaseFold(href), LabelChapterPrefixes)
    IN  <<type, IF type = "chapter" THEN number ELSE NoNumber, NoNumber>>

\* _classify_nav_entry(label, href): (type, chapter number, part number),
\* the label consulted first, then the href.
classify_nav_entry(nav_label, href) ==
    LET type == IF NavTypeOf(CaseFold(nav_label)) # "other"
                THEN NavTypeOf(CaseFold(nav_label))
                ELSE NavTypeOf(CaseFold(href))
        number == IF NumberIn(CaseFold(nav_label), LabelChapterPrefixes)
                     # NoNumber
                  THEN NumberIn(CaseFold(nav_label), LabelChapterPrefixes)
                  ELSE NumberIn(CaseFold(href), LabelChapterPrefixes)
    IN  <<type, IF type = "chapter" THEN number ELSE NoNumber, NoNumber>>

(***************************************************************************)
(* SpecClassify: one call of classify_content_item, extract_part_number or *)
(* extract_chapter_number on a drawn (id, href).  SpecNav: one call of     *)
(* _classify_nav_entry on a drawn (label, href).                           *)
(***************************************************************************)

\* 'part-1'
ID_part_1 ==
    <<"p", "a", "r", "t", "-", "1">>
\* 'part-2'
ID_part_2 ==
    <<"p", "a", "r", "t", "-", "2">>
\* 'Part-3'
ID_Part_3 ==
    <<"P", "a", "r", "t", "-", "3">>
\* 'part-5'
ID_part_5 ==
    <<"p", "a", "r", "t", "-", "5">>
\* 'part-id361'
ID_part_id361 ==
    <<"p", "a", "r", "t", "-", "i", "d", "3", "6", "1">>
\* 'part-id357'
ID_part_id357 ==
    <<"p", "a", "r", "t", "-", "i", "d", "3", "5", "7">>
\* 'part01'
ID_part01 ==
    <<"p", "a", "r", "t", "0", "1">>
\* 'part1'
ID_part1 ==
    <<"p", "a", "r", "t", "1">>
\* 'PART-1'
ID_PART_1 ==
    <<"P", "A", "R", "T", "-", "1">>
\* 'PART-2'
ID_PART_2 ==
    <<"P", "A", "R", "T", "-", "2">>
\* 'partner-1'
ID_partner_1 ==
    <<"p", "a", "r", "t", "n", "e", "r", "-", "1">>
\* 'depart-1'
ID_depart_1 ==
    <<"d", "e", "p", "a", "r", "t", "-", "1">>
\* 'chapter-id357'
ID_chapter_id357 ==
    <<"c", "h", "a", "p", "t", "e", "r", "-", "i", "d", "3", "5", "7">>
\* 'unknown-id'
ID_unknown_id ==
    <<"u", "n", "k", "n", "o", "w", "n", "-", "i", "d">>
\* 'random-text'
ID_random_text ==
    <<"r", "a", "n", "d", "o", "m", "-", "t", "e", "x", "t">>
\* 'random-id'
ID_random_id ==
    <<"r", "a", "n", "d", "o", "m", "-", "i", "d">>
\* 'chapter-1'
ID_chapter_1 ==
    <<"c", "h", "a", "p", "t", "e", "r", "-", "1">>
\* 'Chapter-01'
ID_Chapter_01 ==
    <<"C", "h", "a", "p", "t", "e", "r", "-", "0", "1">>
\* 'ch01'
ID_ch01 ==
    <<"c", "h", "0", "1">>
\* 'ch05'
ID_ch05 ==
    <<"c", "h", "0", "5">>
\* 'chapter-idm123'
ID_chapter_idm123 ==
    <<"c", "h", "a", "p", "t", "e", "r", "-", "i", "d", "m", "1", "2", "3">>
\* 'preface'
ID_preface ==
    <<"p", "r", "e", "f", "a", "c", "e">>
\* 'titlepage'
ID_titlepage ==
    <<"t", "i", "t", "l", "e", "p", "a", "g", "e">>
\* 'toc'
ID_toc ==
    <<"t", "o", "c">>
\* 'appendix-a'
ID_appendix_a ==
    <<"a", "p", "p", "e", "n", "d", "i", "x", "-", "a">>
\* ''
ID_empty ==
    <<>>
\* 'Text/part-1.xhtml'
H_text_part_1 ==
    <<"T", "e", "x", "t", "/", "p", "a", "r", "t", "-", "1", ".", "x", "h",
      "t", "m", "l">>
\* 'Text/PART-1.XHTML'
H_text_PART_1 ==
    <<"T", "e", "x", "t", "/", "P", "A", "R", "T", "-", "1", ".", "X", "H",
      "T", "M", "L">>
\* 'TEXT/PART-2.HTML'
H_TEXT_PART_2 ==
    <<"T", "E", "X", "T", "/", "P", "A", "R", "T", "-", "2", ".", "H", "T",
      "M", "L">>
\* 'part01.html'
H_part01 ==
    <<"p", "a", "r", "t", "0", "1", ".", "h", "t", "m", "l">>
\* 'part02.xhtml'
H_part02 ==
    <<"p", "a", "r", "t", "0", "2", ".", "x", "h", "t", "m", "l">>
\* 'part04.html'
H_part04 ==
    <<"p", "a", "r", "t", "0", "4", ".", "h", "t", "m", "l">>
\* 'part05.html'
H_part05 ==
    <<"p", "a", "r", "t", "0", "5", ".", "h", "t", "m", "l">>
\* 'Text/partner.html'
H_partner ==
    <<"T", "e", "x", "t", "/", "p", "a", "r", "t", "n", "e", "r", ".", "h",
      "t", "m", "l">>
\* 'Text/depart.html'
H_depart ==
    <<"T", "e", "x", "t", "/", "d", "e", "p", "a", "r", "t", ".", "h", "t",
      "m", "l">>
\* 'chapter-1.xhtml'
H_chapter_1 ==
    <<"c", "h", "a", "p", "t", "e", "r", "-", "1", ".", "x", "h", "t", "m",
      "l">>
\* 'ch01.html'
H_ch01 ==
    <<"c", "h", "0", "1", ".", "h", "t", "m", "l">>
\* 'random.html'
H_random ==
    <<"r", "a", "n", "d", "o", "m", ".", "h", "t", "m", "l">>
\* 'preface.html'
H_preface ==
    <<"p", "r", "e", "f", "a", "c", "e", ".", "h", "t", "m", "l">>
\* 'appendix-a.html'
H_appendix_a ==
    <<"a", "p", "p", "e", "n", "d", "i", "x", "-", "a", ".", "h", "t", "m",
      "l">>
\* 'index.html'
H_index ==
    <<"i", "n", "d", "e", "x", ".", "h", "t", "m", "l">>
\* 'toc.xhtml'
H_toc ==
    <<"t", "o", "c", ".", "x", "h", "t", "m", "l">>
\* ''
H_empty ==
    <<>>
\* 'Chapter 1: Introduction'
N_chapter_1 ==
    <<"C", "h", "a", "p", "t", "e", "r", " ", "1", ":", " ", "I", "n", "t",
      "r", "o", "d", "u", "c", "t", "i", "o", "n">>
\* 'Appendix A'
N_appendix_a ==
    <<"A", "p", "p", "e", "n", "d", "i", "x", " ", "A">>
\* 'Preface'
N_preface ==
    <<"P", "r", "e", "f", "a", "c", "e">>
\* 'Index'
N_index ==
    <<"I", "n", "d", "e", "x">>
\* 'INDEX'
N_INDEX ==
    <<"I", "N", "D", "E", "X">>
\* 'Introduction'
N_introduction ==
    <<"I", "n", "t", "r", "o", "d", "u", "c", "t", "i", "o", "n">>
\* 'CHAPTER 12'
N_chapter_12 ==
    <<"C", "H", "A", "P", "T", "E", "R", " ", "1", "2">>
\* 'Reindexing'
N_reindexing ==
    <<"R", "e", "i", "n", "d", "e", "x", "i", "n", "g">>
\* ''
N_empty ==
    <<>>

Ids ==
    { ID_part_1, ID_part_2, ID_Part_3, ID_part_5, ID_part_id357,
      ID_part_id361, ID_part01,
      ID_part1, ID_PART_1, ID_PART_2, ID_partner_1, ID_depart_1,
      ID_chapter_id357, ID_unknown_id, ID_random_id, ID_random_text,
      ID_chapter_1,
      ID_Chapter_01, ID_ch01, ID_ch05, ID_chapter_idm123, ID_preface,
      ID_titlepage, ID_toc, ID_appendix_a, ID_empty }

Hrefs ==
    { H_text_part_1, H_text_PART_1, H_TEXT_PART_2, H_part01, H_part02,
      H_part04, H_part05, H_partner, H_depart, H_chapter_1, H_ch01, H_random,
      H_preface, H_appendix_a, H_index, H_toc, H_empty }

Labels ==
    { N_chapter_1, N_appendix_a, N_preface, N_index, N_INDEX, N_introduction,
      N_chapter_12, N_reindexing, N_empty }

InitClassify ==
    /\ raw_images = <<>>
    /\ resolved_images = <<>>
    /\ html_rel_dir = D_root
    /\ valid_images = {}
    /\ rpc = "call"
    /\ ExtractIdle
    /\ HeaderIdle
    /\ item_id \in Ids
    /\ item_href \in Hrefs
    /\ label = <<>>
    /\ content_type = ""
    /\ part_number = NoNumber
    /\ chapter_number = NoNumber
    /\ nav_entry = <<"", NoNumber, NoNumber>>
    /\ TocIdle
    /\ CliIdle

CallClassifyContentItem ==
    /\ rpc = "call"
    /\ content_type' = classify_content_item(item_id, item_href)
    /\ rpc' = "classify_content_item"
    /\ UNCHANGED <<raw_images, resolved_images, html_rel_dir, valid_images,
                   extract_vars, cli_vars,
                   header_vars, item_id, item_href, label,
                   part_number, chapter_number, nav_entry, toc_vars>>

CallExtractPartNumber ==
    /\ rpc = "call"
    /\ part_number' = extract_part_number(item_id, item_href)
    /\ rpc' = "extract_part_number"
    /\ UNCHANGED <<raw_images, resolved_images, html_rel_dir, valid_images,
                   extract_vars, cli_vars,
                   header_vars, item_id, item_href, label,
                   content_type, chapter_number, nav_entry, toc_vars>>

CallExtractChapterNumber ==
    /\ rpc = "call"
    /\ chapter_number' = extract_chapter_number(item_id, item_href)
    /\ rpc' = "extract_chapter_number"
    /\ UNCHANGED <<raw_images, resolved_images, html_rel_dir, valid_images,
                   extract_vars, cli_vars,
                   header_vars, item_id, item_href, label,
                   content_type, part_number, nav_entry, toc_vars>>

NextClassify ==
    \/ CallClassifyContentItem
    \/ CallExtractPartNumber
    \/ CallExtractChapterNumber

SpecClassify == InitClassify /\ [][NextClassify]_vars

InitNav ==
    /\ raw_images = <<>>
    /\ resolved_images = <<>>
    /\ html_rel_dir = D_root
    /\ valid_images = {}
    /\ rpc = "call"
    /\ ExtractIdle
    /\ HeaderIdle
    /\ item_id = <<>>
    /\ item_href \in Hrefs
    /\ label \in Labels
    /\ content_type = ""
    /\ part_number = NoNumber
    /\ chapter_number = NoNumber
    /\ nav_entry = <<"", NoNumber, NoNumber>>
    /\ TocIdle
    /\ CliIdle

CallClassifyNavEntry ==
    /\ rpc = "call"
    /\ nav_entry' = classify_nav_entry(label, item_href)
    /\ rpc' = "return"
    /\ UNCHANGED <<raw_images, resolved_images, html_rel_dir, valid_images,
                   extract_vars, cli_vars,
                   header_vars, item_id, item_href, label,
                   content_type, part_number, chapter_number, toc_vars>>

NextNav == CallClassifyNavEntry

SpecNav == InitNav /\ [][NextNav]_vars

(***************************************************************************)
(* SpecToc: the toc command of the CLI (cli.py, lines 371-419) on a drawn  *)
(* navigation tree.  An item of the tree is a dict; a key that the dict    *)
(* does not have is None here.                                             *)
(***************************************************************************)

\* 'Unknown'
T_unknown == <<"U", "n", "k", "n", "o", "w", "n">>
\* 'chapter'
T_chapter == <<"c", "h", "a", "p", "t", "e", "r">>

\* item.get(key, default)
Get(value, default) == IF value = None THEN default ELSE value

\* The k-th item at the place path of a tree, with its children.  The keys
\* an item has go by k: 'label' and 'content_src', or 'title' alone, or
\* 'href' alone; the first item of a list has a 'nav_type'.
NavItem(path, k, children) ==
    [label |-> IF k % 3 = 1 THEN path ELSE None,
     title |-> IF k % 3 = 2 THEN path ELSE None,
     content_src |-> IF k % 3 = 1 THEN path \o <<".", "h", "t", "m", "l">>
                     ELSE None,
     href |-> IF k % 3 = 0 THEN path ELSE None,
     nav_type |-> IF k = 1 THEN T_chapter ELSE None,
     children |-> children]

\* The most items of a drawn navigation tree.
MaxNodes == 5

\* The lists of items with n items in all, the first of them the k-th item
\* at the place path.
RECURSIVE Forests(_, _, _)
Forests(n, path, k) ==
    IF n = 0 THEN { <<>> }
    ELSE UNION {
             { <<NavItem(path \o <<Digits[k]>>, k, children)>> \o rest :
                 children \in Forests(m, path \o <<Digits[k]>>, 1),
                 rest \in Forests(n - 1 - m, path, k + 1) } :
             m \in 0..(n - 1) }

NavigationTrees == UNION { Forests(n, <<>>, 1) : n \in 0..MaxNodes }

InitToc ==
    /\ raw_images = <<>>
    /\ resolved_images = <<>>
    /\ html_rel_dir = D_root
    /\ valid_images = {}
    /\ rpc = "call"
    /\ ExtractIdle
    /\ HeaderIdle
    /\ ClassifyIdle
    /\ format \in {"text", "json", "table"}
    /\ flat \in BOOLEAN
    /\ navigation_tree \in NavigationTrees
    /\ flat_list = <<>>
    /\ stack = <<>>
    /\ output = "none"
    /\ CliIdle

\* Lines 385-394: text format without --flat: the tree is printed.
OutputTree ==
    /\ rpc = "call"
    /\ format = "text" /\ ~flat
    /\ output' = IF navigation_tree # <<>> THEN "tree" ELSE "not_found"
    /\ rpc' = "return"
    /\ UNCHANGED <<raw_images, resolved_images, html_rel_dir, valid_images,
                   extract_vars, cli_vars,
                   header_vars, classify_vars, format, flat,
                   navigation_tree, flat_list, stack>>

\* Lines 397-413: --flat and a tree: flatten(nav["navigation_tree"]).
StartFlatten ==
    /\ rpc = "call"
    /\ ~(format = "text" /\ ~flat)
    /\ flat /\ navigation_tree # <<>>
    /\ flat_list' = <<>>
    /\ stack' = <<[items |-> navigation_tree, i |-> 1, level |-> 0]>>
    /\ rpc' = "flatten"
    /\ UNCHANGED <<raw_images, resolved_images, html_rel_dir, valid_images,
                   extract_vars, cli_vars,
                   header_vars, classify_vars, format, flat,
                   navigation_tree, output>>

\* Lines 415-416: no --flat or no tree: nav is handed to the formatter.
OutputNav ==
    /\ rpc = "call"
    /\ ~(format = "text" /\ ~flat)
    /\ ~(flat /\ navigation_tree # <<>>)
    /\ output' = "nav"
    /\ rpc' = "return"
    /\ UNCHANGED <<raw_images, resolved_images, html_rel_dir, valid_images,
                   extract_vars, cli_vars,
                   header_vars, classify_vars, format, flat,
                   navigation_tree, flat_list, stack>>

\* The call of flatten that runs, and the item its for loop is at.
frame == stack[Len(stack)]
item == frame.items[frame.i]

\* Lines 402-407: the entry flatten appends for an item.
FlatEntry(it, level) ==
    [level |-> level,
     title |-> Get(it.label, Get(it.title, T_unknown)),
     href |-> Get(it.content_src, Get(it.href, <<>>)),
     nav_type |-> Get(it.nav_type, <<>>)]

\* stack with the for loop of the running call moved to the next item
NextItem == [stack EXCEPT ![Len(stack)].i = frame.i + 1]

\* Mutant of FlattenItem: the children are flattened at the level of their
\* parent (`level` for `level + 1`).
FlattenItem_SameLevel ==
    /\ rpc = "flatten"
    /\ frame.i <= Len(frame.items)
    /\ flat_list' = Append(flat_list, FlatEntry(item, frame.level))
    /\ stack' =
           IF item.children # <<>>
           THEN Append(NextItem,
                       [items |-> item.children, i |-> 1,
                        level |-> frame.level])
           ELSE NextItem
    /\ UNCHANGED <<raw_images, resolved_images, rpc, html_rel_dir,
                   valid_images, extract_vars, cli_vars,
                   header_vars, classify_vars,
                   format, flat, navigation_tree, output>>

\* Lines 401-411: one iteration of the for loop of flatten: the entry of the
\* item is appended, then flatten is called on its children when it has any.
FlattenItem ==
    /\ rpc = "flatten"
    /\ frame.i <= Len(frame.items)
    /\ flat_list' = Append(flat_list, FlatEntry(item, frame.level))
    /\ stack' =
           IF item.children # <<>>
           THEN Append(NextItem,
                       [items |-> item.children, i |-> 1,
                        level |-> frame.level + 1])
           ELSE NextItem
    /\ UNCHANGED <<raw_images, resolved_images, rpc, html_rel_dir,
                   valid_images, extract_vars, cli_vars,
                   header_vars, classify_vars,
                   format, flat, navigation_tree, output>>

\* Line 411: a call of flatten on the children of an item returns.
ReturnFlatten ==
    /\ rpc = "flatten"
    /\ frame.i > Len(frame.items)
    /\ Len(stack) > 1
    /\ stack' = SubSeq(stack, 1, Len(stack) - 1)
    /\ UNCHANGED <<raw_images, resolved_images, rpc, html_rel_dir,
                   valid_images, extract_vars, cli_vars,
                   header_vars, classify_vars,
                   format, flat, navigation_tree, flat_list, output>>

\* Lines 413-414: flatten(nav["navigation_tree"]) returns and flat_list is
\* handed to the formatter.
OutputFlatList ==
    /\ rpc = "flatten"
    /\ frame.i > Len(frame.items)
    /\ Len(stack) = 1
    /\ stack' = <<>>
    /\ output' = "flat_list"
    /\ rpc' = "return"
    /\ UNCHANGED <<raw_images, resolved_images, html_rel_dir, valid_images,
                   extract_vars, cli_vars,
                   header_vars, classify_vars, format, flat,
                   navigation_tree, flat_list>>

NextToc ==
    \/ OutputTree
    \/ StartFlatten
    \/ OutputNav
    \/ FlattenItem
    \/ ReturnFlatten
    \/ OutputFlatList

SpecToc == InitToc /\ [][NextToc]_vars

(***************************************************************************)
(* SpecValidate: one call of validate_epub_path or of handle_error         *)
(* (cli_utils.py, lines 177-192) on a drawn path and file system.          *)
(***************************************************************************)
\* ExitCode (cli_utils.py, lines 28-35)
SUCCESS == 0
ERROR == 1
FILE_NOT_FOUND == 2
INVALID_EPUB == 3
NO_RESULTS == 4

ExitCodes == { SUCCESS, ERROR, FILE_NOT_FOUND, INVALID_EPUB, NO_RESULTS }

\* The index of the last occurrence of character c in s, 0 without one.
LastIndexOf(s, c) ==
    IF \E i \in 1..Len(s) : s[i] = c
    THEN CHOOSE i \in 1..Len(s) :
             s[i] = c /\ \A j \in (i + 1)..Len(s) : s[j] # c
    ELSE 0

\* Path(p).name: the final component.
PathName(p) == Drop(p, LastIndexOf(p, "/"))

\* Path(p).suffix: the name from its last dot on, when that dot is neither
\* the first nor the last character of the name.
PathSuffix(p) ==
    LET name == PathName(p)
        dot == LastIndexOf(name, ".")
    IN  IF 1 < dot /\ dot < Len(name) THEN Drop(name, dot - 1) ELSE <<>>

\* Path(p).stem: the name without its suffix.
PathStem(p) ==
    SubSeq(PathName(p), 1, Len(PathName(p)) - Len(PathSuffix(p)))

\* Lines 177-180: raise SystemExit(code); code is ExitCode.ERROR when the
\* argument is left out.  The value is the code the process exits with.
handle_error(given) == IF given = NoNumber THEN {ERROR} ELSE given

\* What a call leaves: the exit code of the SystemExit it raised, or the
\* value it returned.
Exits(status) == [exit_code |-> status, value |-> None]
Returns(value) == [exit_code |-> NoNumber, value |-> value]

\* Mutant of validate_epub_path: the suffix is compared as it is spelled.
validate_epub_path_CaseSensitive(p, kind) ==
    IF kind = "absent" THEN Exits(handle_error({FILE_NOT_FOUND}))
    ELSE IF PathSuffix(p) # <<".", "e", "p", "u", "b">> /\ kind # "dir"
    THEN Exits(handle_error({INVALID_EPUB}))
    ELSE Returns(p)

\* Lines 183-192; kind is what the file system has at the path.
validate_epub_path(p, kind) ==
    IF kind = "absent" THEN Exits(handle_error({FILE_NOT_FOUND}))
    ELSE IF Lower(PathSuffix(p)) # <<".", "e", "p", "u", "b">> /\ kind # "dir"
    THEN Exits(handle_error({INVALID_EPUB}))
    ELSE Returns(p)

\* 'book.epub'
EP_book_epub ==
    <<"b", "o", "o", "k", ".", "e", "p", "u", "b">>
\* 'Book.EPUB'
EP_Book_EPUB ==
    <<"B", "o", "o", "k", ".", "E", "P", "U", "B">>
\* 'books/book.Epub'
EP_book_Epub ==
    <<"b", "o", "o", "k", "s", "/", "b", "o", "o", "k", ".", "E", "p", "u", "b">>
\* 'book.zip'
EP_book_zip ==
    <<"b", "o", "o", "k", ".", "z", "i", "p">>
\* 'book'
EP_book ==
    <<"b", "o", "o", "k">>
\* '.epub'
EP_dot_epub ==
    <<".", "e", "p", "u", "b">>
\* 'books/.epub'
EP_dir_dot_epub ==
    <<"b", "o", "o", "k", "s", "/", ".", "e", "p", "u", "b">>
\* 'book.epub.bak'
EP_book_epub_bak ==
    <<"b", "o", "o", "k", ".", "e", "p", "u", "b", ".", "b", "a", "k">>
\* 'my.epub/book.txt'
EP_epub_dir_txt ==
    <<"m", "y", ".", "e", "p", "u", "b", "/", "b", "o", "o", "k", ".", "t", "x", "t">>
\* 'archive.tar.epub'
EP_tar_epub ==
    <<"a", "r", "c", "h", "i", "v", "e", ".", "t", "a", "r", ".", "e", "p", "u", "b">>
\* 'bookepub'
EP_bookepub ==
    <<"b", "o", "o", "k", "e", "p", "u", "b">>
\* 'books/extracted'
EP_extracted ==
    <<"b", "o", "o", "k", "s", "/", "e", "x", "t", "r", "a", "c", "t", "e", "d">>

EpubPaths ==
    { EP_book_epub, EP_Book_EPUB, EP_book_Epub, EP_book_zip, EP_book,
      EP_dot_epub, EP_dir_dot_epub, EP_book_epub_bak, EP_epub_dir_txt,
      EP_tar_epub, EP_bookepub, EP_extracted }

\* What the file system can have at a path: nothing, a regular file, a
\* directory, or something else (a device, a socket).
PathKinds == { "absent", "file", "dir", "other" }

InitValidate ==
    /\ raw_images = <<>>
    /\ resolved_images = <<>>
    /\ html_rel_dir = D_root
    /\ valid_images = {}
    /\ rpc = "call"
    /\ ExtractIdle
    /\ HeaderIdle
    /\ ClassifyIdle
    /\ TocIdle
    /\ ImagesIdle
    /\ epub_path \in EpubPaths
    /\ path_kind \in PathKinds
    /\ code = NoNumber
    /\ exit_code = NoNumber
    /\ returned_path = None

CallValidateEpubPath ==
    /\ rpc = "call"
    /\ exit_code' = validate_epub_path(epub_path, path_kind).exit_code
    /\ returned_path' = validate_epub_path(epub_path, path_kind).value
    /\ rpc' = "validate_epub_path"
    /\ UNCHANGED <<raw_images, resolved_images, html_rel_dir, valid_images,
                   extract_vars, header_vars, classify_vars, toc_vars,
                   images_vars, epub_path, path_kind, code>>

\* handle_error(msg) or handle_error(msg, code)
CallHandleError ==
    /\ rpc = "call"
    /\ \E given \in { NoNumber } \cup { {c} : c \in ExitCodes } :
           /\ code' = given
           /\ exit_code' = handle_error(given)
    /\ rpc' = "handle_error"
    /\ UNCHANGED <<raw_images, resolved_images, html_rel_dir, valid_images,
                   extract_vars, header_vars, classify_vars, toc_vars,
                   images_vars, epub_path, path_kind, returned_path>>

NextValidate ==
    \/ CallValidateEpubPath
    \/ CallHandleError

SpecValidate == InitValidate /\ [][NextValidate]_vars

(***************************************************************************)
(* Spec: extract_book_content on a package.  The known-image set is built  *)
(* before the walk (line 330); each document the walk yields is processed  *)
(* by extract_content_sections (line 347) and the images of its sections   *)
(* and blocks are resolved (lines 348-368).                                *)
(***************************************************************************)
Init ==
    /\ raw_images = <<>>
    /\ resolved_images = <<>>
    /\ rpc = "idle"
    /\ html_rel_dir = D_root
    /\ valid_images = {}
    /\ epub_exists \in BOOLEAN
    /\ epub_files \in IF epub_exists THEN Packages ELSE {<<>>}
    /\ file_idx = 1
    /\ file = <<>>
    /\ file_kind = "missing"
    /\ body = NoBody
    /\ pc = "start"
    /\ current_container = NoBody
    /\ content_children = <<>>
    /\ idx = 1
    /\ sections = <<>>
    /\ current_header = None
    /\ current_content = <<>>
    /\ current_images = <<>>
    /\ aliased = FALSE
    /\ content_data = <<>>
    /\ HeaderIdle
    /\ ClassifyIdle
    /\ TocIdle
    /\ CliIdle

\* IMAGE_EXTENSIONS (line 14)
IMAGE_EXTENSIONS ==
    { <<".", "j", "p", "g">>, <<".", "j", "p", "e", "g">>,
      <<".", "p", "n", "g">>, <<".", "g", "i", "f">>,
      <<".", "s", "v", "g">>, <<".", "w", "e", "b", "p">> }

\* Lines 33-44: the normalized relative paths of the image files under the
\* directory; os.walk yields nothing for a directory that does not exist.
discover_epub_images(exists, package_files) ==
    IF exists
    THEN { normalize_path(path) :
             path \in { f \in package_files :
                          \E ext \in IMAGE_EXTENSIONS :
                              EndsWith(Lower(f), ext) } }
    ELSE {}

\* Line 336: the directory is one of the directories that are skipped.
InSkippedDir(entry) ==
    \E skip \in { D_meta_inf,
                   <<"_", "_", "M", "A", "C", "O", "S", "X">>,
                   <<".", "g", "i", "t">> } :
        Contains(entry.root, skip)

\* Line 340: the file name has the suffix of a document.
IsDocument(entry) ==
    \E suffix \in { <<".", "h", "t", "m", "l">>,
                     <<".", "x", "h", "t", "m", "l">>,
                     <<".", "h", "t", "m">> } :
        EndsWith(entry.name, suffix)

\* The file the walk is at.
entry == epub_files[file_idx]

InWalk == pc = "walk" /\ file_idx <= Len(epub_files)

\* Line 330: the known-image set is built before the walk starts.
DiscoverImages ==
    /\ pc = "start"
    /\ valid_images' = discover_epub_images(epub_exists, PackageFiles)
    /\ pc' = "walk"
    /\ UNCHANGED <<walk_vars, resolve_vars, unit_vars, html_rel_dir, file_kind, body,
                   current_container, content_children, segment_vars,
                   content_data>>

\* Mutant of SkipFile: the walk ends at the first file that is passed over.
SkipFile_EndWalk ==
    /\ InWalk
    /\ InSkippedDir(entry) \/ ~IsDocument(entry)
    /\ file_idx' = Len(epub_files) + 1
    /\ UNCHANGED <<epub_exists, epub_files, file, resolve_vars, unit_vars, html_rel_dir,
                   valid_images, file_kind, body, pc, current_container,
                   content_children, segment_vars, content_data>>

\* Lines 336-340: a file of a skipped directory, or one that is not a
\* document, is passed over.
SkipFile ==
    /\ InWalk
    /\ InSkippedDir(entry) \/ ~IsDocument(entry)
    /\ file_idx' = file_idx + 1
    /\ UNCHANGED <<epub_exists, epub_files, file, resolve_vars, unit_vars, html_rel_dir,
                   valid_images, file_kind, body, pc, current_container,
                   content_children, segment_vars, content_data>>

\* Lines 341-347: extract_content_sections is called on a document;
\* html_rel_dir is the directory of its relative path (line 350).
OpenFile ==
    /\ InWalk
    /\ ~InSkippedDir(entry)
    /\ IsDocument(entry)
    /\ file' = entry.name
    /\ html_rel_dir' = entry.root
    /\ file_kind' = entry.kind
    /\ body' = entry.body
    /\ pc' = "open"
    /\ UNCHANGED <<epub_exists, epub_files, file_idx, resolve_vars, unit_vars,
                   valid_images, current_container, content_children,
                   segment_vars, content_data>>

\* Mutant of ReturnEmpty: a file without a body ends the walk.
ReturnEmpty_EndWalk ==
    /\ pc = "open"
    /\ file_kind # "ok"
    /\ sections' = <<>>
    /\ pc' = "returned"
    /\ file_idx' = Len(epub_files)
    /\ UNCHANGED <<epub_exists, epub_files, file, resolve_vars, unit_vars, html_rel_dir,
                   valid_images, file_kind, body, current_container,
                   content_children, current_header, current_content,
                   current_images, aliased, idx, content_data>>

\* Lines 141-158: no file, no parse or no body: return [].
ReturnEmpty ==
    /\ pc = "open"
    /\ file_kind # "ok"
    /\ sections' = <<>>
    /\ pc' = "returned"
    /\ UNCHANGED <<walk_vars, resolve_vars, unit_vars, html_rel_dir, valid_images,
                   file_kind, body, current_container, content_children,
                   current_header, current_content, current_images, aliased,
                   idx, content_data>>

\* Lines 160-171: the junk tags are stripped; the descent starts at body.
StripJunkTags ==
    /\ pc = "open"
    /\ file_kind = "ok"
    /\ body' = StripJunk(body, Len(junk_tags))
    /\ current_container' = body'
    /\ pc' = "descend"
    /\ UNCHANGED <<walk_vars, resolve_vars, unit_vars, html_rel_dir, valid_images, file_kind,
                   content_children, segment_vars, content_data>>

\* Mutant of Descend: the descent goes into the first tag-child whenever
\* there is one (`>= 1` for `== 1`).
Descend_AnyChild ==
    /\ pc = "descend"
    /\ Len(TagChildren(current_container)) >= 1
    /\ current_container' = TagChildren(current_container)[1]
    /\ UNCHANGED <<walk_vars, resolve_vars, unit_vars, html_rel_dir, valid_images, file_kind, body,
                   pc, content_children, segment_vars, content_data>>

\* Lines 172-179: one tag-child only: go deeper.
Descend ==
    /\ pc = "descend"
    /\ Len(TagChildren(current_container)) = 1
    /\ current_container' = TagChildren(current_container)[1]
    /\ UNCHANGED <<walk_vars, resolve_vars, unit_vars, html_rel_dir, valid_images, file_kind, body,
                   pc, content_children, segment_vars, content_data>>

\* Lines 180-194: no or several tag-children: every branch breaks.
StopDescent ==
    /\ pc = "descend"
    /\ Len(TagChildren(current_container)) # 1
    /\ pc' = "collect"
    /\ UNCHANGED <<walk_vars, resolve_vars, unit_vars, html_rel_dir, valid_images, file_kind, body,
                   current_container, content_children, segment_vars,
                   content_data>>

\* Lines 196-237: the content elements are collected, the grouping starts.
CollectContent ==
    /\ pc = "collect"
    /\ content_children' = ContentChildren(current_container)
    /\ sections' = <<>>
    /\ current_header' = None
    /\ current_content' = <<>>
    /\ current_images' = <<>>
    /\ aliased' = FALSE
    /\ idx' = 1
    /\ pc' = "segment"
    /\ UNCHANGED <<walk_vars, resolve_vars, unit_vars, html_rel_dir, valid_images, file_kind, body,
                   current_container, content_data>>

\* The child of the current iteration of the for loop of line 239.
child == content_children[idx]

InLoop == pc = "segment" /\ idx <= Len(content_children)

\* Lines 262-276: the child is skipped (`continue`).
SkipChild ==
    /\ InLoop
    /\ IsSkipped(child)
    /\ idx' = idx + 1
    /\ UNCHANGED <<walk_vars, resolve_vars, unit_vars, html_rel_dir, valid_images, file_kind, body,
                   pc, current_container, content_children, sections,
                   current_header, current_content, current_images, aliased,
                   content_data>>

\* Lines 278-295: a header closes the section before it and opens one.
HeaderChild ==
    /\ InLoop
    /\ ~IsSkipped(child)
    /\ is_generic_header(child)
    /\ sections' =
           IF (current_header # None /\ current_header # <<>>)
              \/ current_content # <<>>
           THEN Append(sections,
                       Section(current_header, current_content, current_images))
           ELSE sections
    /\ current_header' = Strip(get_text(child))
    /\ current_content' = <<HeaderBlock(child)>>
    /\ current_images' = ChildImages(child)
    /\ aliased' = TRUE
    /\ idx' = idx + 1
    /\ UNCHANGED <<walk_vars, resolve_vars, unit_vars, html_rel_dir, valid_images, file_kind, body,
                   pc, current_container, content_children, content_data>>

\* current_content after current_images.extend(images): the header block's
\* 'images' is the same list object when the section was opened by a header.
ExtendImages(content, images) ==
    IF aliased
    THEN [content EXCEPT ![1].images = current_images \o images]
    ELSE content

\* Mutant of AppendChild: the images of the element are not added to those
\* of the section (line 304 left out).
AppendChild_NoExtend ==
    /\ InLoop
    /\ ~IsSkipped(child)
    /\ ~is_generic_header(child)
    /\ current_content' = Append(current_content, ContentBlock(child))
    /\ idx' = idx + 1
    /\ UNCHANGED <<walk_vars, resolve_vars, unit_vars, html_rel_dir, valid_images, file_kind, body,
                   pc, current_container, content_children, sections,
                   current_header, current_images, aliased, content_data>>

\* Lines 296-304: another element is added to the current section.
AppendChild ==
    /\ InLoop
    /\ ~IsSkipped(child)
    /\ ~is_generic_header(child)
    /\ current_content' =
           ExtendImages(Append(current_content, ContentBlock(child)),
                        ChildImages(child))
    /\ current_images' = current_images \o ChildImages(child)
    /\ idx' = idx + 1
    /\ UNCHANGED <<walk_vars, resolve_vars, unit_vars, html_rel_dir, valid_images, file_kind, body,
                   pc, current_container, content_children, sections,
                   current_header, aliased, content_data>>

\* Mutant of FinalSection: the final section is added whether or not there
\* is something in it (the condition of line 307 left out).
FinalSection_Always ==
    /\ pc = "segment"
    /\ idx > Len(content_children)
    /\ sections' =
           Append(sections,
                  Section(current_header, current_content, current_images))
    /\ pc' = "returned"
    /\ UNCHANGED <<walk_vars, resolve_vars, unit_vars, html_rel_dir, valid_images, file_kind, body,
                   current_container, content_children, current_header,
                   current_content, current_images, aliased, idx, content_data>>

\* Lines 306-314: the final section is added and the sections returned.
FinalSection ==
    /\ pc = "segment"
    /\ idx > Len(content_children)
    /\ sections' =
           IF (current_header # None /\ current_header # <<>>)
              \/ current_content # <<>>
           THEN Append(sections,
                       Section(current_header, current_content, current_images))
           ELSE sections
    /\ pc' = "returned"
    /\ UNCHANGED <<walk_vars, resolve_vars, unit_vars, html_rel_dir, valid_images, file_kind, body,
                   current_container, content_children, current_header,
                   current_content, current_images, aliased, idx, content_data>>

\* relative_path of the document (lines 341-345)
relative_path == PathJoin(html_rel_dir, file)

\* A block with its images resolved (lines 361-366)
ResolvedBlock(block) ==
    [block EXCEPT !.images =
        resolve_and_validate_images(block.images, html_rel_dir, valid_images)]

\* A section with its images and those of its blocks resolved (lines 352-366)
ResolvedSection(section) ==
    [header |-> section.header,
     content |-> [i \in DOMAIN section.content |->
                     ResolvedBlock(section.content[i])],
     images |-> resolve_and_validate_images(section.images, html_rel_dir,
                                            valid_images)]

\* Mutant of ResolveBook: the images that were found are taken out of the
\* known-image set (a lookup that consumes what it finds).
ResolveBook_Consume ==
    /\ pc = "returned"
    /\ content_data' =
           IF sections # <<>>
           THEN (relative_path :>
                    [i \in DOMAIN sections |-> ResolvedSection(sections[i])])
                @@ content_data
           ELSE content_data
    /\ valid_images' =
           valid_images \
               UNION { { found[k] : k \in DOMAIN found } :
                         found \in { ResolvedSection(sections[i]).images :
                                        i \in DOMAIN sections } }
    /\ file_idx' = file_idx + 1
    /\ pc' = "walk"
    /\ UNCHANGED <<epub_exists, epub_files, file, resolve_vars, unit_vars, html_rel_dir,
                   file_kind, body, current_container,
                   content_children, segment_vars>>

\* Lines 347-370: the sections of the document, when there are any, are
\* stored under its relative path with their images resolved.
ResolveBook ==
    /\ pc = "returned"
    /\ content_data' =
           IF sections # <<>>
           THEN (relative_path :>
                    [i \in DOMAIN sections |-> ResolvedSection(sections[i])])
                @@ content_data
           ELSE content_data
    /\ file_idx' = file_idx + 1
    /\ pc' = "walk"
    /\ UNCHANGED <<epub_exists, epub_files, file, resolve_vars, unit_vars, html_rel_dir,
                   valid_images, file_kind, body, current_container,
                   content_children, segment_vars>>

\* Line 370: the walk is over, content_data is returned.
ReturnBook ==
    /\ pc = "walk"
    /\ file_idx > Len(epub_files)
    /\ pc' = "done"
    /\ UNCHANGED <<walk_vars, resolve_vars, unit_vars, html_rel_dir, valid_images,
                   file_kind, body, current_container, content_children,
                   segment_vars, content_data>>

Next ==
    \/ DiscoverImages
    \/ SkipFile
    \/ OpenFile
    \/ ReturnBook
    \/ ReturnEmpty
    \/ StripJunkTags
    \/ Descend
    \/ StopDescent
    \/ CollectContent
    \/ SkipChild
    \/ HeaderChild
    \/ AppendChild
    \/ FinalSection
    \/ ResolveBook

Spec == Init /\ [][Next]_vars

(***************************************************************************)
(* SpecImages: the images command of the CLI with --extract (cli.py, lines *)
(* 737-763) on a drawn file list and a drawn directory.  A file of the     *)
(* directory is a pair of its name and its content; extract_single_file is *)
(* the extractor's: it writes the archive member to the path it is given   *)
(* and says whether it did, or raises.                                     *)
(***************************************************************************)
\* str(n)
RECURSIVE Str(_)
Str(n) ==
    IF n < 10 THEN <<DigitChars[n + 1]>>
    ELSE Str(n \div 10) \o <<DigitChars[(n % 10) + 1]>>

\* Line 738: the files with the suffix of an image, letter case ignored.
ImageFilesOf(files) ==
    SelectSeq(files,
              LAMBDA f : \E ext \in IMAGE_EXTENSIONS : EndsWith(Lower(f), ext))

\* (extract_to / name).exists()
Exists(files, name) == \E f \in files : f[1] = name

\* The directory after content is written to the file called name.
Written(files, name, content) ==
    { f \in files : f[1] # name } \cup { <<name, content>> }

\* 'cover_1.jpg'
F_cover_1 == <<"c", "o", "v", "e", "r", "_", "1", ".", "j", "p", "g">>

\* The members of the archive.
ArchiveFiles == { I_images_cover, I_oebps_cover, F_cover_1, F_style }

\* The content of a file that was in the directory before the command ran,
\* and that of a file an extraction that failed left behind.
OldContent == <<"o", "l", "d">>
PartContent == <<"p", "a", "r", "t">>

\* The directories the command can find.
Directories ==
    { {}, { <<I_cover, OldContent>> },
      { <<I_cover, OldContent>>, <<F_cover_1, OldContent>> } }

MaxImages == 3

InitImages ==
    /\ raw_images = <<>>
    /\ resolved_images = <<>>
    /\ html_rel_dir = D_root
    /\ valid_images = {}
    /\ rpc = "idle"
    /\ ExtractIdle
    /\ HeaderIdle
    /\ ClassifyIdle
    /\ TocIdle
    /\ ValidateIdle
    /\ all_files \in SeqsUpTo(ArchiveFiles, MaxImages)
    /\ extract_to \in { "absent", "dir", "file" }
    /\ disk \in IF extract_to = "dir" THEN Directories ELSE { {} }
    /\ image_files = <<>>
    /\ img_idx = 1
    /\ output_path = <<>>
    /\ counter = 1
    /\ extracted_count = 0
    /\ extractions = <<>>
    /\ ipc = "start"
    /\ reported = NoNumber

\* Lines 738-742 and 799-800: extract_to is a file: mkdir raises
\* FileExistsError, which handle_error turns into exit code ERROR.
MakeDirFails ==
    /\ ipc = "start"
    /\ extract_to = "file"
    /\ image_files' = ImageFilesOf(all_files)
    /\ exit_code' = handle_error(NoNumber)
    /\ ipc' = "exited"
    /\ UNCHANGED <<resolve_vars, html_rel_dir, valid_images, extract_vars,
                   header_vars, classify_vars, toc_vars, epub_path, path_kind,
                   code, returned_path, all_files, extract_to, disk, img_idx,
                   output_path, counter, extracted_count, extractions,
                   reported>>

\* Lines 738-743: the directory is there or is made.
MakeDir ==
    /\ ipc = "start"
    /\ extract_to # "file"
    /\ image_files' = ImageFilesOf(all_files)
    /\ extract_to' = "dir"
    /\ extracted_count' = 0
    /\ img_idx' = 1
    /\ ipc' = "for"
    /\ UNCHANGED <<resolve_vars, html_rel_dir, valid_images, extract_vars,
                   header_vars, classify_vars, toc_vars, validate_vars,
                   all_files, disk, output_path, counter, extractions,
                   reported>>

\* The image the for loop is at.
img_path == image_files[img_idx]

\* Lines 745-751: the next image; its name is the first candidate.
NextImage ==
    /\ ipc = "for"
    /\ img_idx <= Len(image_files)
    /\ output_path' = PathName(img_path)
    /\ counter' = 1
    /\ ipc' = "while"
    /\ UNCHANGED <<resolve_vars, html_rel_dir, valid_images, extract_vars,
                   header_vars, classify_vars, toc_vars, validate_vars,
                   all_files, extract_to, disk, image_files, img_idx,
                   extracted_count, extractions, reported>>

\* Lines 752-756: the candidate exists: the next one is stem_counter.suffix.
Rename ==
    /\ ipc = "while"
    /\ Exists(disk, output_path)
    /\ output_path' = PathStem(PathName(img_path)) \o <<"_">> \o Str(counter)
                          \o PathSuffix(PathName(img_path))
    /\ counter' = counter + 1
    /\ UNCHANGED <<resolve_vars, html_rel_dir, valid_images, extract_vars,
                   header_vars, classify_vars, toc_vars, validate_vars,
                   all_files, extract_to, disk, image_files, img_idx,
                   extracted_count, extractions, ipc, reported>>

\* Mutant of ExtractOk: the image is written whether or not the candidate
\* exists (no while loop).
ExtractOk_Overwrite ==
    /\ ipc = "while"
    /\ disk' = Written(disk, output_path, img_path)
    /\ extractions' =
           Append(extractions,
                  [src |-> img_path, dest |-> output_path, ok |-> TRUE])
    /\ extracted_count' = extracted_count + 1
    /\ img_idx' = img_idx + 1
    /\ ipc' = "for"
    /\ UNCHANGED <<resolve_vars, html_rel_dir, valid_images, extract_vars,
                   header_vars, classify_vars, toc_vars, validate_vars,
                   all_files, extract_to, image_files, output_path, counter,
                   reported>>

\* Lines 752 and 758-760: the candidate is free and the extraction
\* succeeds: the image is written there and counted.
ExtractOk ==
    /\ ipc = "while"
    /\ ~Exists(disk, output_path)
    /\ disk' = Written(disk, output_path, img_path)
    /\ extractions' =
           Append(extractions,
                  [src |-> img_path, dest |-> output_path, ok |-> TRUE])
    /\ extracted_count' = extracted_count + 1
    /\ img_idx' = img_idx + 1
    /\ ipc' = "for"
    /\ UNCHANGED <<resolve_vars, html_rel_dir, valid_images, extract_vars,
                   header_vars, classify_vars, toc_vars, validate_vars,
                   all_files, extract_to, image_files, output_path, counter,
                   reported>>

\* Lines 752 and 758: the candidate is free and extract_single_file returns
\* False; it has written nothing, or a part of the file.
ExtractFails ==
    /\ ipc = "while"
    /\ ~Exists(disk, output_path)
    /\ \/ disk' = disk
       \/ disk' = Written(disk, output_path, PartContent)
    /\ extractions' =
           Append(extractions,
                  [src |-> img_path, dest |-> output_path, ok |-> FALSE])
    /\ img_idx' = img_idx + 1
    /\ ipc' = "for"
    /\ UNCHANGED <<resolve_vars, html_rel_dir, valid_images, extract_vars,
                   header_vars, classify_vars, toc_vars, validate_vars,
                   all_files, extract_to, image_files, output_path, counter,
                   extracted_count, reported>>

\* Lines 758 and 799-800: extract_single_file raises: handle_error ends the
\* command with exit code ERROR.
ExtractRaises ==
    /\ ipc = "while"
    /\ ~Exists(disk, output_path)
    /\ exit_code' = handle_error(NoNumber)
    /\ ipc' = "exited"
    /\ UNCHANGED <<resolve_vars, html_rel_dir, valid_images, extract_vars,
                   header_vars, classify_vars, toc_vars, epub_path, path_kind,
                   code, returned_path, all_files, extract_to, disk,
                   image_files, img_idx, output_path, counter,
                   extracted_count, extractions, reported>>

\* Lines 762-763: the loop is over: the count is printed.
Report ==
    /\ ipc = "for"
    /\ img_idx > Len(image_files)
    /\ reported' = {extracted_count}
    /\ ipc' = "done"
    /\ UNCHANGED <<resolve_vars, html_rel_dir, valid_images, extract_vars,
                   header_vars, classify_vars, toc_vars, validate_vars,
                   all_files, extract_to, disk, image_files, img_idx,
                   output_path, counter, extracted_count, extractions>>

NextImages ==
    \/ MakeDirFails
    \/ MakeDir
    \/ NextImage
    \/ Rename
    \/ ExtractOk
    \/ ExtractFails
    \/ ExtractRaises
    \/ Report

SpecImages == InitImages /\ [][NextImages]_vars

(***************************************************************************)
(* Properties.                                                             *)
(***************************************************************************)

\* The set of the elements of a sequence.
Range(seq) == { seq[i] : i \in DOMAIN seq }

\* seq without the later occurrences of a value that occurred before.
FirstOccurrences(seq) ==
    LET keep(i) == \A j \in 1..(i - 1) : seq[j] # seq[i]
        F[i \in 0..Len(seq)] ==
            IF i = 0 THEN <<>>
            ELSE IF keep(i) THEN Append(F[i - 1], seq[i]) ELSE F[i - 1]
    IN  F[Len(seq)]

\* A reference that starts with http://, https:// or data:.
HasSchemePrefix(ref) ==
    \/ StartsWith(ref, <<"h", "t", "t", "p", ":", "/", "/">>)
    \/ StartsWith(ref, <<"h", "t", "t", "p", "s", ":", "/", "/">>)
    \/ StartsWith(ref, <<"d", "a", "t", "a", ":">>)

\* The raw references of the call that are external.
ExternalRaw == { r \in Range(raw_images) : HasSchemePrefix(r) }

\* The raw references of the call that are internal.
InternalRaw == Range(raw_images) \ ExternalRaw

\* C1: every element returned by resolve_and_validate_images is an external
\* reference of the input (starting with http://, https:// or data:),
\* returned verbatim whatever the known-image set holds, or a normalized path
\* that is in the known-image set; an internal reference whose normalized
\* path is not in the set is dropped.
C1_ExternalOrKnown ==
    rpc = "return" =>
        /\ \A x \in Range(resolved_images) :
               x \in ExternalRaw \/ x \in valid_images
        /\ ExternalRaw \subseteq Range(resolved_images)
        /\ \A r \in InternalRaw :
               LET path == resolve_image_path(r, html_rel_dir)
               IN  path \notin valid_images =>
                       path \notin Range(resolved_images) \ ExternalRaw

\* The resolved values of the raw references that are eligible to be kept,
\* in input order: external ones, and internal ones whose path is known.
EligibleValues ==
    LET all == [i \in DOMAIN raw_images |->
                    resolve_image_path(raw_images[i], html_rel_dir)]
        ok(v) == v # None /\ (HasSchemePrefix(v) \/ v \in valid_images)
    IN  SelectSeq(all, ok)

\* C2: the result of resolve_and_validate_images holds no value twice; it is
\* the resolved (final, normalized) values of the kept references, each at
\* the place of its first occurrence in the input, later occurrences dropped.
C2_DedupFirstOccurrence ==
    rpc = "return" =>
        /\ \A i, j \in DOMAIN resolved_images :
               resolved_images[i] = resolved_images[j] => i = j
        /\ resolved_images = FirstOccurrences(EligibleValues)

\* C2 witness: two different raw references ('./cover.jpg', 'cover.jpg')
\* resolve to the same known path, which is returned once, at the place of
\* the first of them, before a later external reference.
C2_Witness ==
    /\ rpc = "return"
    /\ raw_images = <<R_dot_cover, R_https, R_cover>>
    /\ html_rel_dir = D_root
    /\ resolved_images = <<I_cover, R_https>>

\* ref up to its first '#' or '?'.
RECURSIVE WithoutSuffix(_)
WithoutSuffix(ref) ==
    IF ref = <<>> \/ Head(ref) \in {"#", "?"} THEN <<>>
    ELSE <<Head(ref)>> \o WithoutSuffix(Tail(ref))

\* The segments of a path between '/' separators.
Segments(path) == Range(Split(path, "/"))

\* C3: for a non-external reference, resolve_image_path strips the fragment
\* and query suffix and returns no path when nothing remains; otherwise it
\* returns a path with its separators normalized (no backslash is left) and
\* its '..' segments collapsed (no '..' segment is left);
\* '../images/cover.jpg' from 'OEBPS/Text' gives 'OEBPS/images/cover.jpg',
\* kept exactly when that path is a known image.
C3_ResolvedNormalized ==
    rpc = "return" =>
        /\ \A r \in InternalRaw :
               LET path == resolve_image_path(r, html_rel_dir)
               IN  IF WithoutSuffix(r) = <<>>
                   THEN path = None
                   ELSE /\ path # None
                        /\ "\\" \notin Range(path)
                        /\ <<".", ".">> \notin Segments(path)
        /\ resolve_image_path(R_parent_cover, D_text) = I_oebps_images_cover
        /\ (raw_images = <<R_parent_cover>> /\ html_rel_dir = D_text) =>
               resolved_images = IF I_oebps_images_cover \in valid_images
                                 THEN <<I_oebps_images_cover>> ELSE <<>>

(***************************************************************************)
(* Properties of the segmentation (Spec).                                   *)
(***************************************************************************)

\* extract_content_sections has returned the sections of a parsed document.
Returned == file_kind = "ok" /\ pc \in {"returned", "done"}

\* The blocks of the sections, in order.
AllBlocks(secs) == Concat([i \in DOMAIN secs |-> secs[i].content])

\* The elements the blocks of the sections were made from, in order.
BlockElems(secs) ==
    [i \in DOMAIN AllBlocks(secs) |-> AllBlocks(secs)[i].html]

\* The number of characters of the visible text of an element.
TextLen(e) == Len(get_text_strip(e))

\* The number of characters of the text inside the anchors of an element.
AnchorLen(e) == Len(LinksText(e))

\* More than 40 characters, more than 0.70 of them inside anchors.
LinkDense(e) == TextLen(e) > 40 /\ 10 * AnchorLen(e) > 7 * TextLen(e)

\* An image reference is found in the element: it is an img with a src or
\* an SVG image with a href or xlink:href, or such an element is inside it.
HasImageRef(e) ==
    \E d \in Range(Descendants(e)) \cup {e} :
        \/ d.name = "img" /\ d.attrs.src # <<>>
        \/ d.name = "image" /\ (d.attrs.href # <<>> \/ d.attrs.xhref # <<>>)

\* The element is not removed by the boilerplate filters.
NonFiltered(e) ==
    \/ is_generic_header(e)
    \/ ~LinkDense(e) /\ (TextLen(e) > 0 \/ HasImageRef(e))

\* The content elements that are header-like, as indexes of content_children.
HeaderIndexes ==
    { i \in DOMAIN content_children : is_generic_header(content_children[i]) }

\* The original statement of C4: a document without header-like content
\* element yields exactly one section, with header 'Intro', whose blocks are
\* the non-filtered content elements in document order.
C4_Original ==
    (Returned /\ HeaderIndexes = {}) =>
        /\ Len(sections) = 1
        /\ sections[1].header = Intro
        /\ BlockElems(sections) = SelectSeq(content_children, NonFiltered)

\* C4 (amended): a document without header-like content element yields no
\* section when no content element passes the filters, and otherwise exactly
\* one section, with header 'Intro', whose blocks are the non-filtered
\* content elements in document order.
C4_IntroSection ==
    (Returned /\ HeaderIndexes = {}) =>
        IF SelectSeq(content_children, NonFiltered) = <<>>
        THEN sections = <<>>
        ELSE /\ Len(sections) = 1
             /\ sections[1].header = Intro
             /\ BlockElems(sections) = SelectSeq(content_children, NonFiltered)

\* C4 witness: a document without header, with a filtered element and two
\* others, has given one 'Intro' section of two blocks.
C4_Witness ==
    /\ Returned
    /\ HeaderIndexes = {}
    /\ Len(content_children) = 3
    /\ Len(sections) = 1
    /\ sections[1].header = Intro
    /\ Len(sections[1].content) = 2

\* C5: each header-like content element opens a section whose header text is
\* the stripped text of that element and whose first block is the element
\* itself with is_header true.  (On the emitted sections: a section whose
\* first block is a header block carries that header element's stripped text
\* as its header, and there is one such section for each header element.)
C5_HeaderOpensSection ==
    Returned =>
        /\ \A i \in DOMAIN sections :
               LET first == sections[i].content[1]
               IN  first.is_header =>
                       /\ is_generic_header(first.html)
                       /\ first.text = Strip(get_text(first.html))
                       /\ sections[i].header = Strip(get_text(first.html))
        /\ Cardinality({ i \in DOMAIN sections : sections[i].content[1].is_header })
               = Cardinality(HeaderIndexes)

\* The sections emitted so far and, during the loop, the open section when
\* it has a block.
SectionsSoFar ==
    IF pc = "segment" /\ current_content # <<>>
    THEN Append(sections,
                Section(current_header, current_content, current_images))
    ELSE sections

\* The content elements the loop has dealt with.
Processed ==
    IF pc = "segment" THEN SubSeq(content_children, 1, idx - 1)
    ELSE content_children

\* C6: section boundaries occur only at header-like elements.  At every
\* point of the grouping and in the result: there are as many sections whose
\* first block is a header block as header-like content elements dealt with
\* (no filter removes a header), only the first section can be without
\* header block, a header block is the first block of its section, and the
\* blocks of the sections, in order, are made one each from the non-filtered
\* content elements in document order.
C6_BoundariesAtHeaders ==
    (file_kind = "ok" /\ pc \in {"segment", "returned", "done"}) =>
        /\ Cardinality({ i \in DOMAIN SectionsSoFar :
                             SectionsSoFar[i].content[1].is_header })
               = Cardinality({ i \in DOMAIN Processed :
                                   is_generic_header(Processed[i]) })
        /\ \A i \in DOMAIN SectionsSoFar :
               /\ i > 1 => SectionsSoFar[i].content[1].is_header
               /\ \A k \in DOMAIN SectionsSoFar[i].content :
                      k > 1 => ~SectionsSoFar[i].content[k].is_header
        /\ BlockElems(SectionsSoFar) = SelectSeq(Processed, NonFiltered)
        /\ \A k \in DOMAIN AllBlocks(SectionsSoFar) :
               AllBlocks(SectionsSoFar)[k].is_header
                   = is_generic_header(AllBlocks(SectionsSoFar)[k].html)

\* C6 witness: three sections were returned, the first without header block,
\* the others opened by the two header elements of the document.
C6_Witness ==
    /\ Returned
    /\ Len(sections) = 3
    /\ ~sections[1].content[1].is_header
    /\ Cardinality(HeaderIndexes) = 2

\* The values of the lists, each at the place of its first occurrence.
OrderedUnion(lists) == FirstOccurrences(Concat(lists))

\* C7: in the result of extract_book_content the image list of every section
\* is the order-preserving union (first occurrence kept) of the image lists
\* of the blocks of that section.
C7_SectionImagesUnion ==
    pc = "done" =>
        \A path \in DOMAIN content_data :
            \A i \in DOMAIN content_data[path] :
                LET section == content_data[path][i]
                IN  section.images =
                        OrderedUnion([k \in DOMAIN section.content |->
                                         section.content[k].images])

\* C7 witness: a section of the result has three blocks with one image each,
\* two of them the same known image, and lists the two distinct images.
C7_Witness ==
    /\ pc = "done"
    /\ content_children = <<E_h1_img, E_img, E_p_img>>
    /\ content_data[relative_path][1].images = <<R_https, I_oebps_cover>>
    /\ content_data[relative_path][1].content[3].images = <<I_oebps_cover>>

\* C8: a non-header content element with visible text is excluded exactly
\* when its text is longer than 40 characters and more than 0.70 of it is
\* inside anchors: 40 of 50 is excluded, exactly 40 characters (all inside
\* an anchor) and 35 of 50 are kept.
C8_LinkDensity ==
    Returned =>
        /\ \A e \in Range(content_children) :
               (~is_generic_header(e) /\ TextLen(e) > 0) =>
                   (e \notin Range(BlockElems(sections))
                        <=> (TextLen(e) > 40 /\ 10 * AnchorLen(e) > 7 * TextLen(e)))
        /\ (TextLen(E_links_img) = 50 /\ AnchorLen(E_links_img) = 40)
        /\ (TextLen(E_p_40) = 40 /\ AnchorLen(E_p_40) = 40)
        /\ (TextLen(E_p_35of50) = 50 /\ AnchorLen(E_p_35of50) = 35)
        /\ E_links_img \notin Range(BlockElems(sections))
        /\ E_p_40 \in Range(content_children) =>
               E_p_40 \in Range(BlockElems(sections))
        /\ E_p_35of50 \in Range(content_children) =>
               E_p_35of50 \in Range(BlockElems(sections))

\* C8 witness: of an element with 40 of 50 characters inside anchors and one
\* with 35 of 50, the second alone became a block.
C8_Witness ==
    /\ Returned
    /\ content_children = <<E_links_img, E_p_35of50>>
    /\ BlockElems(sections) = <<E_p_35of50>>

\* The image references of an element, in the order the claim lists them:
\* the src of the img elements inside it, the href (else xlink:href) of the
\* SVG image elements inside it, and its own when it is an image tag.
ImageRefs(e) ==
    LET srcs == SelectSeq([i \in DOMAIN Descendants(e) |->
                              IF Descendants(e)[i].name = "img"
                              THEN Descendants(e)[i].attrs.src ELSE <<>>],
                          LAMBDA v : v # <<>>)
        hrefs == SelectSeq([i \in DOMAIN Descendants(e) |->
                              IF Descendants(e)[i].name # "image" THEN <<>>
                              ELSE IF Descendants(e)[i].attrs.href # <<>>
                              THEN Descendants(e)[i].attrs.href
                              ELSE Descendants(e)[i].attrs.xhref],
                          LAMBDA v : v # <<>>)
        own == IF e.name = "img" THEN e.attrs.src
               ELSE IF e.name # "image" THEN <<>>
               ELSE IF e.attrs.href # <<>> THEN e.attrs.href
               ELSE e.attrs.xhref
    IN  IF own = <<>> \/ own \in Range(srcs \o hrefs)
        THEN srcs \o hrefs
        ELSE Append(srcs \o hrefs, own)

\* C9: the image references of a content element are extracted before the
\* filters are evaluated: a non-header element without visible text is
\* dropped only when no image reference was extracted from it, and with an
\* image it becomes a block.  (The images of a block start with those
\* extracted from its element.)
C9_ImagesBeforeFilters ==
    (file_kind = "ok" /\ pc \in {"segment", "returned", "done"}) =>
        /\ \A e \in Range(Processed) :
               (~is_generic_header(e) /\ TextLen(e) = 0) =>
                   (e \in Range(BlockElems(SectionsSoFar)) <=> ImageRefs(e) # <<>>)
        /\ \A k \in DOMAIN AllBlocks(SectionsSoFar) :
               LET block == AllBlocks(SectionsSoFar)[k]
               IN  /\ Len(ImageRefs(block.html)) <= Len(block.images)
                   /\ SubSeq(block.images, 1, Len(ImageRefs(block.html)))
                          = ImageRefs(block.html)

\* C9 witness: an img element without text became a block with its image,
\* while an empty paragraph of the same document was dropped.
C9_Witness ==
    /\ Returned
    /\ content_children = <<E_p_empty, E_img>>
    /\ Len(sections) = 1
    /\ BlockElems(sections) = <<E_img>>
    /\ sections[1].content[1].images = <<R_dot_cover>>

\* to is reached from from by moving into the only tag-child, zero or more
\* times.
RECURSIVE OnWrapperChain(_, _)
OnWrapperChain(from, to) ==
    \/ from = to
    \/ /\ Len(TagChildren(from)) = 1
       /\ OnWrapperChain(TagChildren(from)[1], to)

\* The descent is over.
Descended ==
    file_kind = "ok" /\ pc \in {"collect", "segment", "returned", "done"}

\* <body> around three nested single-child divs around five p elements
WrapperExample == Body(Wrapped(3, FiveParagraphs))

\* The state part of C10.
C10_DescentInvariant ==
    /\ pc = "descend" => OnWrapperChain(body, current_container)
    /\ Descended =>
           /\ OnWrapperChain(body, current_container)
           /\ Len(TagChildren(current_container)) # 1
    /\ (Descended /\ pc # "collect" /\ body = WrapperExample) =>
           content_children = FiveParagraphs

\* The number of nodes of a tree.
RECURSIVE NodeCount(_)
NodeCount(node) ==
    1 + Len(Concat([i \in DOMAIN node.kids |->
                       Rep("n", NodeCount(node.kids[i]))]))

\* A step of the descent that does not end it moves to a smaller tree.
DescentShrinks ==
    (pc = "descend" /\ pc' = "descend") =>
        NodeCount(current_container') < NodeCount(current_container)

\* C10: starting at body, the descent moves into the only tag-child while
\* the current element has exactly one tag-child and stops at the first
\* element with no or several tag-children; for a body holding three nested
\* single-child divs around five p elements the content elements are those
\* five p elements in order; the descent terminates, every step that does
\* not end it moving to a strictly smaller subtree of a finite tree.
C10_WrapperDescent ==
    /\ []C10_DescentInvariant
    /\ [][DescentShrinks]_vars

\* C10 witness: the descent went from body through the three wrapper divs,
\* stopped at the innermost, and the five p elements are the content.
C10_Witness ==
    /\ pc = "segment"
    /\ body = WrapperExample
    /\ current_container = Wrapped(3, FiveParagraphs)[1].kids[2].kids[2]
    /\ content_children = FiveParagraphs

\* The tag-children of a node, in document order.
ElementKids(node) == SelectSeq(node.kids, LAMBDA k : k.name # "#text")

\* A character of the node's own text or of its descendants' is not blank.
RECURSIVE HasVisibleText(_)
HasVisibleText(node) ==
    IF node.name = "#text"
    THEN \E i \in DOMAIN node.text : node.text[i] \notin {" ", "\t", "\n"}
    ELSE \E k \in DOMAIN node.kids : HasVisibleText(node.kids[k])

\* What one direct child contributes when no direct child is a header.
UnwrappedOnce(direct) ==
    CASE direct.name \notin {"div", "section", "article"} -> <<direct>>
      [] direct.name \in {"div", "section", "article"}
         /\ ElementKids(direct) # <<>> -> ElementKids(direct)
      [] direct.name \in {"div", "section", "article"}
         /\ ElementKids(direct) = <<>>
         /\ HasVisibleText(direct) -> <<direct>>
      [] OTHER -> <<>>

\* The contributions of the first n direct children, in document order.
RECURSIVE UnwrappedUpTo(_, _)
UnwrappedUpTo(directs, n) ==
    IF n = 0 THEN <<>>
    ELSE UnwrappedUpTo(directs, n - 1) \o UnwrappedOnce(directs[n])

\* The extraction of the open document has collected its content elements.
Collected == file_kind = "ok" /\ pc \in {"segment", "returned"}

\* C11: at the level where the descent stopped, the content elements are all
\* direct children when one of them is header-like; otherwise they are, in
\* document order, each direct child that is no div, section or article as
\* it is, and for each that is one its tag-children (unwrapped one level, a
\* container among them staying as it is), or the container itself when it
\* has no tag-children but visible text, or nothing when it has neither.
C11_OneLevelUnwrap ==
    Collected =>
        LET directs == ElementKids(current_container)
        IN  IF \E i \in DOMAIN directs : is_generic_header(directs[i])
            THEN content_children = directs
            ELSE content_children = UnwrappedUpTo(directs, Len(directs))

\* C11 witness: beside a paragraph, a div that holds a div and a paragraph
\* was unwrapped one level: the inner div is a content element, its
\* paragraphs are not.
C11_Witness ==
    /\ pc = "segment"
    /\ ElementKids(current_container) = <<E_p, E_div_nested>>
    /\ content_children = <<E_p, E_div_wrap, E_p>>

\* The lower-case letter of an upper-case letter, any other character itself.
FoldChar(c) ==
    IF \E k \in 1..26 : UpperCase[k] = c
    THEN LowerCase[CHOOSE k \in 1..26 : UpperCase[k] = c]
    ELSE c

\* kw occurs in s when letter case is ignored.
OccursIgnoringCase(s, kw) ==
    \E at \in 0..(Len(s) - Len(kw)) :
        \A j \in 1..Len(kw) : FoldChar(s[at + j]) = kw[j]

\* The number of characters of the text pieces of a node, each stripped.
RECURSIVE StrippedLength(_)
StrippedLength(node) ==
    IF node.name = "#text" THEN Len(Strip(node.text))
    ELSE LET sum[k \in 0..Len(node.kids)] ==
                 IF k = 0 THEN 0
                 ELSE sum[k - 1] + StrippedLength(node.kids[k])
         IN  sum[Len(node.kids)]

\* An element whose class list joined with its id holds a keyword.
HasKeyword(e) ==
    \E kw \in keywords :
        OccursIgnoringCase(e.attrs.cls \o <<" ">> \o e.attrs.id, kw)

\* C12: is_generic_header is true for every h1..h6 element and every element
\* with role 'heading' whatever its text; for any other element it is true
\* exactly when the class list joined with the id holds a keyword (letter
\* case ignored) and the stripped text has more than 0 and fewer than 200
\* characters; it is false when there is no element.
C12_GenericHeader ==
    rpc = "return" =>
        /\ element = NoElement => ~is_header
        /\ (element # NoElement /\ element.name # "#text") =>
               IF element.name \in {"h1", "h2", "h3", "h4", "h5", "h6"}
                  \/ element.attrs.role = A_heading
               THEN is_header
               ELSE is_header <=>
                        /\ HasKeyword(element)
                        /\ 0 < StrippedLength(element)
                        /\ StrippedLength(element) < 200

\* C12 witness: a div of class 'Chapter-Title' without a role whose text has
\* exactly 200 characters was given and is no header.
C12_Witness ==
    /\ rpc = "return"
    /\ element.name = "div"
    /\ element.attrs.role = <<>>
    /\ element.attrs.cls = A_chapter_title
    /\ StrippedLength(element) = 200
    /\ ~is_header

\* The path of a file of the package, relative to the package.
PathOf(f) == PathJoin(f.root, f.name)

\* A document with a heading and a paragraph, as the i-th file.
TextFile(i) == WalkEntry(D_oebps, ChapterFile(i), "ok", Body(<<E_h1, E_p>>))

\* The result holds the sections of every heading-and-paragraph document of
\* the package and nothing for the files that gave no body.
FailedFilesLeftOut ==
    \A i \in DOMAIN epub_files :
        /\ epub_files[i].kind # "ok" =>
               PathOf(epub_files[i]) \notin DOMAIN content_data
        /\ epub_files[i] = TextFile(i) =>
               /\ PathOf(epub_files[i]) \in DOMAIN content_data
               /\ Len(content_data[PathOf(epub_files[i])]) = 1
               /\ content_data[PathOf(epub_files[i])][1].header
                      = <<"T", "i", "t", "l", "e">>

\* The call of extract_content_sections on a file that is missing, cannot be
\* read or parsed, or has no body returns, and returns the empty list.
EmptyForNoBody ==
    (pc = "open" /\ file_kind # "ok") => (pc' = "returned" /\ sections' = <<>>)

\* C13: extract_content_sections returns an empty list, and raises nothing,
\* when the file does not exist, cannot be read or parsed or has no body
\* element; extract_book_content leaves that file out of its result and
\* still processes every other file of the package.
C13_FailedFileSkipped ==
    /\ [][EmptyForNoBody]_vars
    /\ [](pc = "done" => FailedFilesLeftOut)

\* C13 witness: the first file of the package did not exist when it was
\* opened, the second is a document; the result holds the second only.
C13_Witness ==
    /\ pc = "done"
    /\ Len(epub_files) = 2
    /\ epub_files[1].kind = "missing"
    /\ epub_files[2] = TextFile(2)
    /\ DOMAIN content_data = { PathOf(epub_files[2]) }

\* C14: a package directory that does not exist surfaces as a failure to the
\* caller: extract_book_content does not return a result for it.
C14_MissingPackageFails ==
    ~epub_exists => pc # "done"

\* The upper-case letter of a lower-case letter, any other character itself.
RaiseChar(c) ==
    IF \E k \in 1..26 : LowerCase[k] = c
    THEN UpperCase[CHOOSE k \in 1..26 : LowerCase[k] = c]
    ELSE c

\* s in upper case and in lower case.
UpperCased(s) == [i \in DOMAIN s |-> RaiseChar(s[i])]
LowerCased(s) == [i \in DOMAIN s |-> FoldChar(s[i])]

\* The characters that bound a token of an identifier or of a href.
Delimiters == {"/", "-", ".", "_", " ", ":"}

\* 'part' stands in s (letter case ignored) at the start of a token and is
\* followed by a digit, by '-' and a digit, or by '-id' and a digit.
HasPartToken(s) ==
    \E i \in 1..(Len(s) - 4) :
        /\ i = 1 \/ s[i - 1] \in Delimiters
        /\ LowerCased(SubSeq(s, i, i + 3)) = <<"p", "a", "r", "t">>
        /\ LET rest == LowerCased(SubSeq(s, i + 4, Len(s)))
           IN  \/ IsDigit(rest[1])
               \/ Len(rest) >= 2 /\ rest[1] = "-" /\ IsDigit(rest[2])
               \/ /\ Len(rest) >= 4
                  /\ SubSeq(rest, 1, 3) = <<"-", "i", "d">>
                  /\ IsDigit(rest[4])

\* C15: 'part' is matched as a delimiter-bounded token only: partner-1 with
\* Text/partner.html and depart-1 with Text/depart.html are Other, the ids
\* part-N, partNN and part-idXXX are Part, and no item is Part unless its id
\* or its href holds a part token.
C15_PartTokenBounded ==
    rpc = "classify_content_item" =>
        /\ (item_id = ID_partner_1 /\ item_href = H_partner) =>
               content_type = "other"
        /\ (item_id = ID_depart_1 /\ item_href = H_depart) =>
               content_type = "other"
        /\ item_id \in { ID_part_1, ID_part_2, ID_part01, ID_part1,
                         ID_part_id357 } => content_type = "part"
        /\ content_type = "part" =>
               HasPartToken(item_id) \/ HasPartToken(item_href)

\* C15 witness: depart-1 with Text/depart.html was classified, as Other.
C15_Witness ==
    /\ rpc = "classify_content_item"
    /\ item_id = ID_depart_1
    /\ item_href = H_depart
    /\ content_type = "other"

\* C16: the letter case of id and href changes neither the content type nor
\* the extracted number: each result is that of the upper-case and of the
\* lower-case spelling of the same id and href; PART-1 with
\* Text/PART-1.XHTML is Part and PART-2 with TEXT/PART-2.HTML has number 2.
C16_CaseInsensitive ==
    /\ rpc = "classify_content_item" =>
           /\ content_type =
                  classify_content_item(UpperCased(item_id),
                                        UpperCased(item_href))
           /\ content_type =
                  classify_content_item(LowerCased(item_id),
                                        LowerCased(item_href))
           /\ (item_id = ID_PART_1 /\ item_href = H_text_PART_1) =>
                  content_type = "part"
    /\ rpc = "extract_part_number" =>
           /\ part_number =
                  extract_part_number(UpperCased(item_id),
                                      UpperCased(item_href))
           /\ part_number =
                  extract_part_number(LowerCased(item_id),
                                      LowerCased(item_href))
           /\ (item_id = ID_PART_2 /\ item_href = H_TEXT_PART_2) =>
                  part_number = {2}
    /\ rpc = "extract_chapter_number" =>
           /\ chapter_number =
                  extract_chapter_number(UpperCased(item_id),
                                         UpperCased(item_href))
           /\ chapter_number =
                  extract_chapter_number(LowerCased(item_id),
                                         LowerCased(item_href))

\* C16 witness: the part number of PART-2 with TEXT/PART-2.HTML was
\* extracted and is 2.
C16_Witness ==
    /\ rpc = "extract_part_number"
    /\ item_id = ID_PART_2
    /\ item_href = H_TEXT_PART_2
    /\ part_number = {2}

C18_IdTypeFirst ==
    rpc = "classify_content_item" =>
        /\ content_type =
               IF classify_content_item(item_id, <<>>) # "other"
               THEN classify_content_item(item_id, <<>>)
               ELSE classify_content_item(<<>>, item_href)
        /\ (item_id = ID_chapter_id357 /\ item_href = H_part01) =>
               content_type = "part"
        /\ (item_id = ID_unknown_id /\ item_href = H_part02) =>
               content_type = "part"

\* C18 witness: part-1 with chapter-1.xhtml was classified and has the type
\* of its id.
C18_Witness ==
    /\ rpc = "classify_content_item"
    /\ item_id = ID_part_1
    /\ item_href = H_chapter_1
    /\ content_type = "part"

\* C19: a navigation entry is classified from its label and href into
\* (type, chapter number, part number): a label with 'Appendix' is
\* back_matter whatever the href, one with 'Preface' front_matter, one with
\* 'Index' index, 'Chapter 1: Introduction' with ch01.html is
\* ('chapter', 1, None), and an entry that is no chapter has no number.
C19_NavEntry ==
    rpc = "return" =>
        /\ label = N_appendix_a =>
               nav_entry = <<"back_matter", NoNumber, NoNumber>>
        /\ label = N_preface =>
               nav_entry = <<"front_matter", NoNumber, NoNumber>>
        /\ label \in { N_index, N_INDEX } =>
               nav_entry = <<"index", NoNumber, NoNumber>>
        /\ (label = N_chapter_1 /\ item_href = H_ch01) =>
               nav_entry = <<"chapter", {1}, NoNumber>>
        /\ nav_entry[1] # "chapter" =>
               nav_entry[2] = NoNumber /\ nav_entry[3] = NoNumber

\* C19 witness: the entry 'Appendix A' with the href of a chapter file was
\* classified, as back matter without a number.
C19_Witness ==
    /\ rpc = "return"
    /\ label = N_appendix_a
    /\ item_href = H_ch01
    /\ nav_entry = <<"back_matter", NoNumber, NoNumber>>

\* The title and the href the command shows for an item of the tree.
ShownTitle(it) ==
    IF it.label # None THEN it.label
    ELSE IF it.title # None THEN it.title ELSE T_unknown
ShownHref(it) ==
    IF it.content_src # None THEN it.content_src
    ELSE IF it.href # None THEN it.href ELSE <<>>

\* The items of a tree in pre-order, each with its nesting depth: an item,
\* then the items below it, then its next sibling.
RECURSIVE PreOrder(_, _)
PreOrder(items, depth) ==
    IF items = <<>> THEN <<>>
    ELSE <<[level |-> depth, title |-> ShownTitle(items[1]),
            href |-> ShownHref(items[1])]>>
         \o PreOrder(items[1].children, depth + 1)
         \o PreOrder(Tail(items), depth)

\* The number of items of a tree.
RECURSIVE ItemCount(_)
ItemCount(items) ==
    IF items = <<>> THEN 0
    ELSE 1 + ItemCount(items[1].children) + ItemCount(Tail(items))

\* The flat list is the pre-order of the tree: one entry per item, each
\* with the item's depth as its level.
FlatListIsPreOrder ==
    output = "flat_list" =>
        /\ Len(flat_list) = ItemCount(navigation_tree)
        /\ [k \in DOMAIN flat_list |->
               [level |-> flat_list[k].level, title |-> flat_list[k].title,
                href |-> flat_list[k].href]]
               = PreOrder(navigation_tree, 0)

\* C20: toc --flat hands the formatter a list with exactly one entry per
\* node of the navigation tree, each parent before its children and the
\* siblings in their order, each entry with the nesting depth of its node
\* as level (0 at the top); no step of the command changes the tree.
C20_FlattenPreOrder ==
    /\ []FlatListIsPreOrder
    /\ [][navigation_tree' = navigation_tree]_vars

\* C20 witness: a tree three levels deep with a top-level item after the
\* nested ones was flattened.
C20_Witness ==
    /\ output = "flat_list"
    /\ \E k \in DOMAIN flat_list : flat_list[k].level = 2
    /\ flat_list[Len(flat_list)].level = 0
    /\ Len(flat_list) >= 4

\* The known-image set of the package: the image files under the
\* directory, none when the directory does not exist.
KnownImages == IF epub_exists THEN PackageImages ELSE {}

\* An image of a document was looked up in the set and found.
ImageFound ==
    \E path \in DOMAIN content_data :
        \E i \in DOMAIN content_data[path] :
            content_data[path][i].images # <<>>

\* C21: the known-image set is built once, before any document is opened,
\* and no later step of extract_book_content changes it; resolving the
\* images of a document reads the set and the raw lists of the sections
\* and leaves both as they were.
C21_KnownImagesFrozen ==
    /\ [](pc = "start" => file = <<>> /\ content_data = <<>>)
    /\ [](pc # "start" => valid_images = KnownImages)
    /\ [][pc # "start" => valid_images' = valid_images]_vars
    /\ [][pc = "returned" => sections' = sections]_vars

\* C21 witness: the walk is over, an image of a document was found in the
\* set, and the set still holds every image of the package.
C21_Witness ==
    /\ pc = "done"
    /\ ImageFound
    /\ valid_images = PackageImages

\* The value of a decimal numeral.
RECURSIVE DecimalValue(_)
DecimalValue(numeral) ==
    IF numeral = <<>> THEN 0
    ELSE 10 * DecimalValue(SubSeq(numeral, 1, Len(numeral) - 1))
         + (CHOOSE v \in 0..9 :
                <<"0", "1", "2", "3", "4", "5", "6", "7", "8", "9">>[v + 1]
                    = numeral[Len(numeral)])

\* s is 'part-id' and a numeral: the number part of the id.
OpaquePartId(s) ==
    /\ Len(s) > 7
    /\ SubSeq(s, 1, 7) = <<"p", "a", "r", "t", "-", "i", "d">>
    /\ \A i \in 8..Len(s) : IsDigit(s[i])

\* s is a plain part file name 'partNN.html' or 'partNN.xhtml'.
PlainPartHref(s) ==
    /\ Len(s) > 6
    /\ SubSeq(s, 1, 4) = <<"p", "a", "r", "t">>
    /\ IsDigit(s[5]) /\ IsDigit(s[6])
    /\ SubSeq(s, 7, Len(s)) \in { <<".", "h", "t", "m", "l">>,
                                  <<".", "x", "h", "t", "m", "l">> }

HasChapterToken(s) ==
    \E i \in 1..(Len(s) - 7) :
        /\ i = 1 \/ s[i - 1] \in Delimiters
        /\ LowerCased(SubSeq(s, i, i + 6))
               = <<"c", "h", "a", "p", "t", "e", "r">>
        /\ LET rest == SubSeq(s, i + 7, Len(s))
           IN  \/ IsDigit(rest[1])
               \/ Len(rest) >= 2 /\ rest[1] = "-" /\ IsDigit(rest[2])

\* C23: extract_part_number gives None, and so not 0, when neither the id
\* nor the href holds a part pattern: for the empty id and href, for
\* random-text with random.html, and for a chapter, front-matter or
\* back-matter item, numbered (chapter-1 with chapter-1.xhtml) or not;
\* extract_chapter_number gives None for chapter-idm123.
C23_NoPartNumber ==
    /\ rpc = "extract_part_number" =>
           /\ (~HasPartToken(item_id) /\ ~HasPartToken(item_href)) =>
                  part_number = NoNumber /\ 0 \notin part_number
           /\ (item_id = ID_empty /\ item_href = H_empty) =>
                  part_number = NoNumber
           /\ (item_id = ID_random_text /\ item_href = H_random) =>
                  part_number = NoNumber
           /\ (item_id = ID_chapter_1 /\ item_href = H_chapter_1) =>
                  part_number = NoNumber
           /\ (item_id = ID_preface /\ item_href = H_preface) =>
                  part_number = NoNumber
           /\ (item_id = ID_appendix_a /\ item_href = H_appendix_a) =>
                  part_number = NoNumber
    /\ (rpc = "extract_chapter_number" /\ item_id = ID_chapter_idm123
                                       /\ ~HasChapterToken(item_href)
                                       /\ item_href \in { H_empty, H_random,
                                                          H_preface }) =>
           chapter_number = NoNumber

\* C23 witness: the part number of chapter-1 with chapter-1.xhtml, an item
\* with a number that is no part, was extracted and is None.
C23_Witness ==
    /\ rpc = "extract_part_number"
    /\ item_id = ID_chapter_1
    /\ item_href = H_chapter_1
    /\ classify_content_item(item_id, item_href) = "chapter"
    /\ part_number = NoNumber

\* The path names a file with the suffix .epub, letter case ignored: its
\* final component is a non-empty stem followed by '.epub'.
EpubSuffixed(p) ==
    /\ Len(p) > 5
    /\ LowerCased(SubSeq(p, Len(p) - 4, Len(p)))
           = <<".", "e", "p", "u", "b">>
    /\ p[Len(p) - 5] # "/"

\* The path can be used: something is there, and it is a directory or its
\* suffix is .epub.
Usable(p, kind) == kind # "absent" /\ (kind = "dir" \/ EpubSuffixed(p))

\* C24: validate_epub_path returns for a usable path only, and then the
\* path as it was given; it exits with FILE_NOT_FOUND (2) when nothing is
\* at the path and with INVALID_EPUB (3) when what is there is neither a
\* directory nor named *.epub in any letter case; handle_error exits with
\* the code it is given, with ERROR (1) when it is given none.
C24_ValidatePath ==
    /\ rpc = "validate_epub_path" =>
           /\ path_kind = "absent" =>
                  exit_code = {2} /\ returned_path = None
           /\ (path_kind # "absent" /\ ~Usable(epub_path, path_kind)) =>
                  exit_code = {3} /\ returned_path = None
           /\ Usable(epub_path, path_kind) =>
                  exit_code = {} /\ returned_path = epub_path
           /\ returned_path # None => Usable(epub_path, path_kind)
    /\ rpc = "handle_error" =>
           /\ exit_code # {}
           /\ exit_code = IF code = {} THEN {1} ELSE code

\* C24 witness: Book.EPUB is a file and was returned unchanged.
C24_Witness ==
    /\ rpc = "validate_epub_path"
    /\ epub_path = EP_Book_EPUB
    /\ path_kind = "file"
    /\ returned_path = EP_Book_EPUB
    /\ exit_code = {}

\* The names of the files of a directory.
NamesOf(files) == { f[1] : f \in files }

\* name with _k put before its last extension.
Numbered(name, k) ==
    LET dot == CHOOSE i \in 0..Len(name) :
                   /\ i = 0 \/ name[i] = "."
                   /\ \A j \in (i + 1)..Len(name) : name[j] # "."
        cut == IF dot > 1 /\ dot < Len(name) THEN dot - 1 ELSE Len(name)
    IN  SubSeq(name, 1, cut) \o <<"_">> \o Str(k)
            \o SubSeq(name, cut + 1, Len(name))

\* The first of name, name_1, name_2, ... that is the name of no file.
FirstFree(name, files) ==
    IF name \notin NamesOf(files) THEN name
    ELSE Numbered(name,
                  CHOOSE k \in 1..(Cardinality(files) + 1) :
                      /\ Numbered(name, k) \notin NamesOf(files)
                      /\ \A j \in 1..(k - 1) :
                             Numbered(name, j) \in NamesOf(files))

\* The final component of an archive path.
LastComponent(p) ==
    LET slash == CHOOSE i \in 0..Len(p) :
                     /\ i = 0 \/ p[i] = "/"
                     /\ \A j \in (i + 1)..Len(p) : p[j] # "/"
    IN  SubSeq(p, slash + 1, Len(p))

\* The extractions that succeeded.
Succeeded == SelectSeq(extractions, LAMBDA e : e.ok)

\* A call of extract_single_file is made in this step.
Extracting == Len(extractions') = Len(extractions) + 1

\* C25: with --extract, each image is written to a name that no file of the
\* directory had when it was chosen, the first free one of name, stem_1,
\* stem_2, ...; no file that is in the directory, old or extracted, is ever
\* removed or rewritten; each pass of the name search raises the counter,
\* which never exceeds the number of files by more than one, so the search
\* ends; the count that is reported is the number of extractions that
\* succeeded, and each of them is in the directory with its content.
C25_NoOverwrite ==
    /\ [][Extracting =>
              LET call == extractions'[Len(extractions')]
              IN  /\ call.dest \notin NamesOf(disk)
                  /\ call.dest = FirstFree(LastComponent(call.src), disk)]_vars
    /\ [][disk \subseteq disk']_vars
    /\ [](\A f, g \in disk : f[1] = g[1] => f = g)
    /\ [][(ipc = "while" /\ ipc' = "while") => counter' = counter + 1]_vars
    /\ [](counter <= Cardinality(disk) + 1)
    /\ [](reported # {} => reported = { Len(Succeeded) })
    /\ [](\A i \in DOMAIN Succeeded :
              <<Succeeded[i].dest, Succeeded[i].src>> \in disk)

\* C25 witness: cover.jpg and cover_1.jpg were in the directory; two images
\* named cover.jpg were extracted, the second as cover_3.jpg, the count 2 was
\* reported and the old files are as they were.
C25_Witness ==
    /\ ipc = "done"
    /\ reported = {2}
    /\ <<I_cover, OldContent>> \in disk
    /\ <<F_cover_1, OldContent>> \in disk
    /\ \E i \in DOMAIN extractions :
           /\ extractions[i].ok
           /\ extractions[i].dest
                  = <<"c", "o", "v", "e", "r", "_", "3", ".", "j", "p", "g">>

\* C26: the image list of every block holds exactly the image references
\* of the element the block was made from: that of a header block holds
\* those of the header element only, whatever elements follow it in its
\* section.
C26_BlockOwnImages ==
    (file_kind = "ok" /\ pc \in {"segment", "returned", "done"}) =>
        \A k \in DOMAIN AllBlocks(SectionsSoFar) :
            AllBlocks(SectionsSoFar)[k].images
                = ImageRefs(AllBlocks(SectionsSoFar)[k].html)

\* The blocks that are no header blocks have the images of their element.
OtherBlocksOwnImages ==
    (file_kind = "ok" /\ pc \in {"segment", "returned", "done"}) =>
        \A k \in DOMAIN AllBlocks(SectionsSoFar) :
            ~AllBlocks(SectionsSoFar)[k].is_header =>
                AllBlocks(SectionsSoFar)[k].images
                    = ImageRefs(AllBlocks(SectionsSoFar)[k].html)

\* C27: every image reference of a content-level element is in the image
\* list of some section of the result, those of an element the link-density
\* rule removed included.
C27_NoImageLost ==
    Returned =>
        \A e \in Range(content_children) :
            \A ref \in Range(ImageRefs(e)) :
                \E i \in DOMAIN sections : ref \in Range(sections[i].images)

\* The image references of the elements that are not link-dense are in the
\* image list of some section.
KeptImagesListed ==
    Returned =>
        \A e \in Range(content_children) :
            (is_generic_header(e) \/ ~LinkDense(e)) =>
                \A ref \in Range(ImageRefs(e)) :
                    \E i \in DOMAIN sections :
                        ref \in Range(sections[i].images)

\* The depth below the package root after the segments are walked from the
\* given depth, -1 as soon as a '..' segment climbs above the root.
RECURSIVE DepthAfter(_, _)
DepthAfter(segs, depth) ==
    IF depth < 0 THEN -1
    ELSE IF segs = <<>> THEN depth
    ELSE IF Head(segs) \in { <<>>, <<".">> } THEN DepthAfter(Tail(segs), depth)
    ELSE IF Head(segs) = <<".", ".">> THEN DepthAfter(Tail(segs), depth - 1)
    ELSE DepthAfter(Tail(segs), depth + 1)

\* The relative reference, followed from the directory, climbs above the
\* package root.
ClimbsAbove(dir, ref) ==
    /\ WithoutSuffix(ref) # <<>>
    /\ Head(ref) # "/"
    /\ "\\" \notin Range(ref)
    /\ DepthAfter(Split(dir, "/") \o Split(WithoutSuffix(ref), "/"), 0) < 0

\* C28: a reference whose '..' segments climb above the package root is
\* never resolved to a path of the package: when every reference of the
\* call is such a reference, nothing is returned.
C28_ClimbingDropped ==
    (rpc = "return" /\ raw_images # <<>>
                    /\ \A r \in Range(raw_images) :
                           ~HasSchemePrefix(r)
                               /\ ClimbsAbove(html_rel_dir, r)) =>
        resolved_images = <<>>

\* The names of the paragraph and heading elements.
TextBlockNames == {"p", "h1", "h2", "h3", "h4", "h5", "h6"}

\* The paragraphs and headings with visible text that is not link-dense
\* which are the only tag-child of the body, directly or under wrappers
\* that have one tag-child each.
LoneTextElements ==
    { e \in Range(Descendants(body)) :
        /\ e.name \in TextBlockNames
        /\ TextLen(e) > 0
        /\ ~LinkDense(e)
        /\ OnWrapperChain(body, e) }

\* C29: the visible text of a document that is not link-dense is in some
\* section: a body whose only tag-child, directly or under single-child
\* wrappers, is one paragraph or heading with text yields a section with a
\* block that holds that text.
C29_TextReachesSection ==
    Returned =>
        \A e \in LoneTextElements :
            \E k \in DOMAIN AllBlocks(sections) :
                Contains(AllBlocks(sections)[k].text, Strip(get_text(e)))

\* The section has a block, no block but its first is a header block, and
\* its first block is one unless it is the first section of its document.
WellFormedSection(secs, i) ==
    /\ Len(secs[i].content) >= 1
    /\ \A k \in DOMAIN secs[i].content :
           secs[i].content[k].is_header => k = 1
    /\ i > 1 => secs[i].content[1].is_header

\* C30: every section that is emitted has at least one block; a header
\* block is the first block of its section; every section but a first one
\* without header starts with a header block.  This holds for the sections
\* emitted during the grouping, for those extract_content_sections returns
\* and for those extract_book_content stores.
C30_SectionShape ==
    /\ (file_kind = "ok" /\ pc \in {"segment", "returned"}) =>
           \A i \in DOMAIN sections : WellFormedSection(sections, i)
    /\ \A path \in DOMAIN content_data :
           \A i \in DOMAIN content_data[path] :
               WellFormedSection(content_data[path], i)

\* C30 witness: a document was stored with two sections, the first of one
\* block that is no header block, the second opened by a header block that
\* another block follows.
C30_Witness ==
    /\ pc = "done"
    /\ \E path \in DOMAIN content_data :
           /\ Len(content_data[path]) = 2
           /\ Len(content_data[path][1].content) = 1
           /\ ~content_data[path][1].content[1].is_header
           /\ content_data[path][2].content[1].is_header
           /\ Len(content_data[path][2].content) >= 2

====
